---------------------------- MODULE Spec2Model ----------------------------
(***************************************************************************)
(* The resilience and command-dispatch layer of the Synapse bridge:        *)
(*   python/synapse/resilience.py    RateLimiter, CircuitBreaker,          *)
(*                                   Watchdog, BackpressureController      *)
(*   python/synapse/synapse_tool.py  DeterministicCommandQueue,            *)
(*                                   ResponseDeliveryQueue,                *)
(*                                   CommandHandlerRegistry, SynapseServer *)
(*                                                                         *)
(* time.time() is the variable now, in whole seconds.  The classes are     *)
(* operators over records of their fields, computed as the methods compute *)
(* them; the actions are the steps of the threads that call the methods:   *)
(* one connection thread per websocket, the watchdog thread, and the       *)
(* host's main thread, which ticks process_commands and calls start/stop.  *)
(***************************************************************************)
EXTENDS Integers, Sequences, FiniteSets, TLC

(***************************************************************************)
(* Bounds of the model.                                                    *)
(***************************************************************************)
\* the clock stops advancing at MaxTime
MaxTime == 25
\* seconds added by one step of the clock
ClockStep == 10
\* record_failure is not called once the failure count has reached this
MaxFailures == 5
\* enqueue is not called directly once the counter has reached this
MaxSeq == 5
\* messages one connection sends; a command's id is its number
MaxMsgs == 2
\* the websockets that enqueue commands
Clients == {"c1", "c2"}
\* RLSpec: the clock stops at RLMaxTime, in steps of one second
RLMaxTime == 3
\* RLSpec: acquire is called for 1 .. RLMaxTokens tokens
RLMaxTokens == 2
\* RLSpec: the limiter is RateLimiter(tokens_per_second = 5 * RLClientRate,
\* bucket_size = RLBucket, per_client_bucket = RLClientBucket), so that a
\* client's bucket refills by RLClientRate tokens in a second
RLClientRate == 1
RLBucket == 3
RLClientBucket == 2
\* WDSpec: the clock stops at WDMaxTime, in steps of one second
WDMaxTime == 14
\* WDSpec: the seconds by which a sleep of the watchdog thread may overrun
PollSlack == 1
\* BPSpec: evaluate is called with a queue size of 0 .. BPMaxQueue and with
\* the average of up to BPMaxSamples latencies of 0 .. BPMaxLatency seconds
BPMaxQueue == 4
BPMaxSamples == 3
BPMaxLatency == 2

(***************************************************************************)
(* Configuration: the arguments SynapseServer.__init__ gives the           *)
(* constructors.  Where the value of the source makes the state space too  *)
(* large a smaller one is used; it is then a bound of the model, and the   *)
(* source's value is in the comment.                                       *)
(***************************************************************************)
\* CircuitBreakerConfig.failure_threshold (20; the default is 5)
failure_threshold == 3
\* CircuitBreakerConfig.success_threshold
success_threshold == 2
\* CircuitBreakerConfig.timeout_seconds
timeout_seconds == 10
\* CircuitBreakerConfig.half_open_max_calls (10; the default is 3)
half_open_max_calls == 4
\* RateLimiter.tokens_per_second; a client's bucket refills at a fifth of it
tokens_per_second == 100
\* RateLimiter.bucket_size (200)
bucket_size == 2
\* RateLimiter.per_client_bucket (50)
per_client_bucket == 1
\* Watchdog.freeze_threshold
freeze_threshold == 5
\* Watchdog.heartbeat_interval
heartbeat_interval == 1
\* Watchdog._latencies: deque(maxlen=100)
LatencyWindow == 1
\* DeterministicCommandQueue._max_size (MAX_PENDING_COMMANDS, 100)
max_size == 3
\* COMMAND_TIMEOUT (60.0)
COMMAND_TIMEOUT == 10
\* BackpressureConfig: the queue sizes (25, 50, 80 for a queue of 100), and
\* the latencies in tenths of a second
queue_elevated == 1
queue_high == 2
queue_critical == 3
latency_elevated == 1
latency_high == 5
latency_critical == 20
\* SynapseServer.__init__(port=9999): the primary port
primary_port == 9999

\* Optional[float] = None
NoTime == -1
\* no sequence number
NoSeq == -1

Max(a, b) == IF a >= b THEN a ELSE b
Min(a, b) == IF a <= b THEN a ELSE b

RECURSIVE SumSeq(_)
SumSeq(s) == IF s = <<>> THEN 0 ELSE Head(s) + SumSeq(Tail(s))

VARIABLES
    now,        \* time.time()
    srv,        \* SynapseServer: "new", "running" (_running is True),
                \* "stopping" (inside stop()), "stopped"
    cb,         \* the CircuitBreaker's fields
    rl,         \* the RateLimiter's fields
    wd,         \* the Watchdog's fields
    bp_level,   \* BackpressureController._level
    pending,    \* DeterministicCommandQueue._pending, oldest first
    sequence_counter,   \* DeterministicCommandQueue._sequence_counter
    responses,  \* ResponseDeliveryQueue._responses, per connection
    conn,       \* the connection threads (_handle_client), per connection
    tick,       \* the main thread inside process_commands; budget: the queue's
                \* length when the drain loop began, less the entries the loop
                \* has dequeued since
    cb_op,      \* history: the last direct call on the breaker, the fields
                \* it found and the answer it gave
    q_hist,     \* history: the sequence numbers enqueue returned and
                \* dequeue handed out
    exec_hist,  \* history: the last command the tick handed to the handler
    rl_op,      \* history: the last direct call on the rate limiter
    wd_op,      \* history: the direct calls on the watchdog and its callbacks
    bp_op,      \* history: the last direct call on the backpressure controller
    pm,         \* the PortManager's fields
    pm_op,      \* history: the last direct call on the port manager
    hm_op,      \* history: the last HealthMonitor.check and what it read
    rq_hist,    \* history: the responses enqueued for and delivered to each
                \* connection
    deq,        \* the threads inside DeterministicCommandQueue.dequeue
    lk          \* the locks of the components and the threads using them

vars == <<now, srv, cb, rl, wd, bp_level, pending, sequence_counter, responses,
          conn, tick, cb_op, q_hist, exec_hist, rl_op, wd_op, bp_op, pm, pm_op,
          hm_op, rq_hist, deq, lk>>

\* the histories of the direct calls on the limiter, the watchdog and the
\* backpressure controller
comp_hist == <<rl_op, wd_op, bp_op>>

\* the state of the specifications of the health monitor, the response
\* queue, the waiting dequeue and the locks
comp_state == <<hm_op, rq_hist, deq, lk>>

(***************************************************************************)
(* CircuitBreaker                                                          *)
(***************************************************************************)
CircuitStates == {"closed", "open", "half_open"}

\* CircuitBreaker.__init__
CircuitBreakerInit ==
    [state |-> "closed", failure_count |-> 0, success_count |-> 0,
     last_failure_time |-> NoTime, half_open_calls |-> 0]

\* variant of _transition_to: entering CLOSED keeps the counters
TransitionToKeepCounters(b, new_state) ==
    IF new_state = "half_open"
    THEN [b EXCEPT !.state = new_state, !.half_open_calls = 0, !.success_count = 0]
    ELSE [b EXCEPT !.state = new_state]

\* CircuitBreaker._transition_to (the history ring, the callback and the
\* print do not change the fields)
TransitionTo(b, new_state) ==
    IF new_state = "closed"
    THEN [b EXCEPT !.state = new_state, !.failure_count = 0, !.success_count = 0]
    ELSE IF new_state = "half_open"
    THEN [b EXCEPT !.state = new_state, !.half_open_calls = 0, !.success_count = 0]
    ELSE [b EXCEPT !.state = new_state]

\* variant of _check_state_transition: Open becomes HalfOpen at once
CheckStateTransitionNoWait(b, t) ==
    IF b.state = "open" /\ b.last_failure_time # NoTime
    THEN TransitionTo(b, "half_open")
    ELSE b

\* CircuitBreaker._check_state_transition at time t
CheckStateTransition(b, t) ==
    IF /\ b.state = "open"
       /\ b.last_failure_time # NoTime
       /\ t - b.last_failure_time >= timeout_seconds
    THEN TransitionTo(b, "half_open")
    ELSE b

\* variant of can_execute: HalfOpen refuses only once the probe count exceeds
\* the limit
CanExecuteLimitOffByOne(b, t) ==
    LET c == CheckStateTransition(b, t) IN
    IF c.state = "closed"
    THEN [allowed |-> TRUE, state |-> "closed", reason |-> "", retry_after |-> NoTime, cb |-> c]
    ELSE IF c.state = "open"
    THEN [allowed |-> FALSE, state |-> "open", reason |-> "circuit_open",
          retry_after |-> IF c.last_failure_time # NoTime
                          THEN Max(0, timeout_seconds - (t - c.last_failure_time))
                          ELSE NoTime,
          cb |-> c]
    ELSE IF c.half_open_calls > half_open_max_calls
    THEN [allowed |-> FALSE, state |-> "half_open", reason |-> "half_open_limit_reached",
          retry_after |-> NoTime, cb |-> c]
    ELSE [allowed |-> TRUE, state |-> "half_open", reason |-> "", retry_after |-> NoTime,
          cb |-> [c EXCEPT !.half_open_calls = @ + 1]]

\* variant of can_execute: the timeout is never evaluated, Open stays Open
CanExecuteNoTimeout(b, t) ==
    IF b.state = "closed"
    THEN [allowed |-> TRUE, state |-> "closed", reason |-> "", retry_after |-> NoTime, cb |-> b]
    ELSE IF b.state = "open"
    THEN [allowed |-> FALSE, state |-> "open", reason |-> "circuit_open",
          retry_after |-> IF b.last_failure_time # NoTime
                          THEN Max(0, timeout_seconds - (t - b.last_failure_time))
                          ELSE NoTime,
          cb |-> b]
    ELSE IF b.half_open_calls >= half_open_max_calls
    THEN [allowed |-> FALSE, state |-> "half_open", reason |-> "half_open_limit_reached",
          retry_after |-> NoTime, cb |-> b]
    ELSE [allowed |-> TRUE, state |-> "half_open", reason |-> "", retry_after |-> NoTime,
          cb |-> [b EXCEPT !.half_open_calls = @ + 1]]

\* CircuitBreaker.can_execute at time t: the answer (allowed, and the info
\* dict's state, reason and retry_after, NoTime when the key is absent)
\* and the fields it leaves
CanExecute(b, t) ==
    LET c == CheckStateTransition(b, t) IN
    IF c.state = "closed"
    THEN [allowed |-> TRUE, state |-> "closed", reason |-> "", retry_after |-> NoTime, cb |-> c]
    ELSE IF c.state = "open"
    THEN [allowed |-> FALSE, state |-> "open", reason |-> "circuit_open",
          retry_after |-> IF c.last_failure_time # NoTime
                          THEN Max(0, timeout_seconds - (t - c.last_failure_time))
                          ELSE NoTime,
          cb |-> c]
    ELSE IF c.half_open_calls >= half_open_max_calls
    THEN [allowed |-> FALSE, state |-> "half_open", reason |-> "half_open_limit_reached",
          retry_after |-> NoTime, cb |-> c]
    ELSE [allowed |-> TRUE, state |-> "half_open", reason |-> "", retry_after |-> NoTime,
          cb |-> [c EXCEPT !.half_open_calls = @ + 1]]

\* CircuitBreaker.record_success
RecordSuccess(b) ==
    IF b.state = "half_open"
    THEN LET c == [b EXCEPT !.success_count = @ + 1] IN
         IF c.success_count >= success_threshold THEN TransitionTo(c, "closed") ELSE c
    ELSE IF b.state = "closed"
    THEN [b EXCEPT !.failure_count = Max(0, @ - 1)]
    ELSE b

\* variant of record_failure: the threshold must be exceeded, not reached
RecordFailureOffByOne(b, t) ==
    LET c == [b EXCEPT !.failure_count = @ + 1, !.last_failure_time = t] IN
    IF c.state = "half_open"
    THEN TransitionTo(c, "open")
    ELSE IF c.state = "closed" /\ c.failure_count > failure_threshold
    THEN TransitionTo(c, "open")
    ELSE c

\* CircuitBreaker.record_failure at time t
RecordFailure(b, t) ==
    LET c == [b EXCEPT !.failure_count = @ + 1, !.last_failure_time = t] IN
    IF c.state = "half_open"
    THEN TransitionTo(c, "open")
    ELSE IF c.state = "closed" /\ c.failure_count >= failure_threshold
    THEN TransitionTo(c, "open")
    ELSE c

\* variant of force_open: the time is noted and the state is left alone
ForceOpenKeepsState(b, t) == [b EXCEPT !.last_failure_time = t]

\* CircuitBreaker.force_open at time t
ForceOpen(b, t) == TransitionTo([b EXCEPT !.last_failure_time = t], "open")

\* CircuitBreaker.force_close
ForceClose(b) == TransitionTo(b, "closed")

(***************************************************************************)
(* DeterministicCommandQueue                                               *)
(***************************************************************************)
\* the types of the commands that reach the queue: a registered command, the
\* registered ping, a type no handler is registered for, and a type that is
\* no string (a JSON list or object)
QueuedTypes == {"cmd", "ping", "unknown", "unhashable"}

\* SynapseCommand: type and id come from the client
Command(type, id) == [type |-> type, id |-> id]

\* the key f"{seq}:{command.id}" of an entry
Key(e) == <<e.sequence, e.id>>

\* DeterministicCommandQueue._evict_oldest: popitem(last=False)
EvictOldest(q) == IF q # <<>> THEN Tail(q) ELSE q

\* variant of enqueue: the sequence number is the queue's length
EnqueueSeqIsLength(q, counter, command, client) ==
    LET q1 == IF Len(q) >= max_size THEN EvictOldest(q) ELSE q
        seq == Len(q1)
        e == [sequence |-> seq, id |-> command.id, type |-> command.type,
              client |-> client]
    IN [pending |-> Append(q1, e), counter |-> counter + 1, seq |-> seq]

\* variant of enqueue: the oldest entry is evicted only from a queue that
\* holds more than max_size entries
EnqueueEvictsLate(q, counter, command, client) ==
    LET q1 == IF Len(q) > max_size THEN EvictOldest(q) ELSE q
        e == [sequence |-> counter, id |-> command.id, type |-> command.type,
              client |-> client]
    IN [pending |-> Append(q1, e), counter |-> counter + 1, seq |-> counter]

\* DeterministicCommandQueue.enqueue: the queue and counter it leaves and
\* the sequence number it returns.  self._pending[key] = ... replaces the
\* value of a key that is present and appends a new key.
Enqueue(q, counter, command, client) ==
    LET q1 == IF Len(q) >= max_size THEN EvictOldest(q) ELSE q
        seq == counter
        e == [sequence |-> seq, id |-> command.id, type |-> command.type,
              client |-> client]
    IN [pending |-> IF \E i \in 1..Len(q1) : Key(q1[i]) = Key(e)
                    THEN [i \in 1..Len(q1) |-> IF Key(q1[i]) = Key(e) THEN e ELSE q1[i]]
                    ELSE Append(q1, e),
        counter |-> counter + 1,
        seq |-> seq]

\* variant of dequeue: popitem() takes the newest entry
DequeueNewest(q) == [item |-> q[Len(q)], pending |-> SubSeq(q, 1, Len(q) - 1)]

\* variant of dequeue: the entry is returned and left in the queue
DequeueKeepsEntry(q) == [item |-> Head(q), pending |-> q]

\* DeterministicCommandQueue.dequeue on a queue that is not empty (or that
\* an enqueue filled during the wait): popitem(last=False)
Dequeue(q) == [item |-> Head(q), pending |-> Tail(q)]

\* DeterministicCommandQueue.clear
Clear(q) == <<>>

\* history of the queue: the last sequence number enqueue returned and the
\* largest it had returned before; the last dequeue handed out and the
\* largest it had handed out before (-1: none)
QHistInit == [assigned |-> NoSeq, assigned_before |-> NoSeq,
              dequeued |-> NoSeq, dequeued_before |-> NoSeq,
              evictions |-> 0, clears |-> 0]

QHistEnqueue(h, q, r) ==
    [h EXCEPT !.assigned = r.seq,
              !.assigned_before = Max(h.assigned, h.assigned_before),
              !.evictions = IF Len(q) >= max_size THEN 1 ELSE @]

QHistDequeue(h, r) ==
    [h EXCEPT !.dequeued = r.item.sequence,
              !.dequeued_before = Max(h.dequeued, h.dequeued_before)]

QHistClear(h) == [h EXCEPT !.clears = 1]

(***************************************************************************)
(* RateLimiter                                                             *)
(***************************************************************************)
NoBucket == [present |-> FALSE, tokens |-> 0, last_refill |-> 0]

\* RateLimiter.__init__(tokens_per_second = tps, bucket_size = bs,
\* per_client_bucket = pcb) at time t
RateLimiterNew(tps, bs, pcb, t) ==
    [tokens_per_second |-> tps, bucket_size |-> bs, per_client_bucket |-> pcb,
     tokens |-> bs, last_refill |-> t,
     buckets |-> [c \in Clients |-> NoBucket]]

\* the RateLimiter of SynapseServer.__init__ at time t
RateLimiterInit(t) ==
    RateLimiterNew(tokens_per_second, bucket_size, per_client_bucket, t)

\* variant of _refill_global: the refill is not capped at the bucket's size
RefillGlobalNoCap(r, t) ==
    [r EXCEPT !.tokens = @ + (t - r.last_refill) * r.tokens_per_second,
              !.last_refill = t]

\* RateLimiter._refill_global at time t
RefillGlobal(r, t) ==
    [r EXCEPT !.tokens = Min(r.bucket_size,
                             @ + (t - r.last_refill) * r.tokens_per_second),
              !.last_refill = t]

\* RateLimiter._refill_client at time t
RefillClient(r, c, t) ==
    IF ~r.buckets[c].present
    THEN [r EXCEPT !.buckets[c] =
             [present |-> TRUE, tokens |-> r.per_client_bucket, last_refill |-> t]]
    ELSE [r EXCEPT !.buckets[c] =
             [present |-> TRUE,
              tokens |-> Min(r.per_client_bucket,
                             @.tokens + (t - @.last_refill) * (r.tokens_per_second \div 5)),
              last_refill |-> t]]

\* variant of acquire: the client's bucket is checked before the global one
AcquireClientFirst(r, c, n, t) ==
    LET r1 == RefillClient(RefillGlobal(r, t), c, t)
        client_tokens == r1.buckets[c].tokens
    IN IF client_tokens < n
       THEN [allowed |-> FALSE, reason |-> "client_rate_limit", rl |-> r1,
             need |-> n - client_tokens, rate |-> r1.tokens_per_second \div 5]
       ELSE IF r1.tokens < n
       THEN [allowed |-> FALSE, reason |-> "global_rate_limit", rl |-> r1,
             need |-> n - r1.tokens, rate |-> r1.tokens_per_second]
       ELSE [allowed |-> TRUE, reason |-> "", need |-> 0, rate |-> 1,
             rl |-> [r1 EXCEPT !.tokens = @ - n, !.buckets[c].tokens = @ - n]]

\* variant of acquire: a rejection by the client's bucket has already
\* debited the global one
AcquireDebitsBeforeClientCheck(r, c, n, t) ==
    LET r1 == RefillClient(RefillGlobal(r, t), c, t)
        client_tokens == r1.buckets[c].tokens
    IN IF r1.tokens < n
       THEN [allowed |-> FALSE, reason |-> "global_rate_limit", rl |-> r1,
             need |-> n - r1.tokens, rate |-> r1.tokens_per_second]
       ELSE IF client_tokens < n
       THEN [allowed |-> FALSE, reason |-> "client_rate_limit",
             rl |-> [r1 EXCEPT !.tokens = @ - n],
             need |-> n - client_tokens, rate |-> r1.tokens_per_second \div 5]
       ELSE [allowed |-> TRUE, reason |-> "", need |-> 0, rate |-> 1,
             rl |-> [r1 EXCEPT !.tokens = @ - n, !.buckets[c].tokens = @ - n]]

\* RateLimiter.acquire(client_id, tokens = n) at time t: the answer, the
\* fields it leaves, and the answer's retry_after as the quotient need / rate
\* (tokens missing / tokens refilled per second)
Acquire(r, c, n, t) ==
    LET r1 == RefillClient(RefillGlobal(r, t), c, t)
        client_tokens == r1.buckets[c].tokens
    IN IF r1.tokens < n
       THEN [allowed |-> FALSE, reason |-> "global_rate_limit", rl |-> r1,
             need |-> n - r1.tokens, rate |-> r1.tokens_per_second]
       ELSE IF client_tokens < n
       THEN [allowed |-> FALSE, reason |-> "client_rate_limit", rl |-> r1,
             need |-> n - client_tokens, rate |-> r1.tokens_per_second \div 5]
       ELSE [allowed |-> TRUE, reason |-> "", need |-> 0, rate |-> 1,
             rl |-> [r1 EXCEPT !.tokens = @ - n, !.buckets[c].tokens = @ - n]]

\* variant of remove_client: the bucket stays
RemoveClientKeepsBucket(r, c) == r

\* RateLimiter.remove_client
RemoveClient(r, c) == [r EXCEPT !.buckets[c] = NoBucket]

(***************************************************************************)
(* Watchdog                                                                *)
(***************************************************************************)
\* Watchdog.__init__ at time t
WatchdogInit(t) ==
    [running |-> FALSE, last_heartbeat |-> t, is_frozen |-> FALSE, latencies |-> <<>>]

\* Watchdog.start at time t: nothing if the watchdog is running
WatchdogStart(w, t) ==
    IF w.running THEN w ELSE [w EXCEPT !.running = TRUE, !.last_heartbeat = t]

\* Watchdog.stop
WatchdogStop(w) == [w EXCEPT !.running = FALSE]

\* deque(maxlen=LatencyWindow).append
PushLatency(lat, x) ==
    IF Len(lat) >= LatencyWindow THEN Append(Tail(lat), x) ELSE Append(lat, x)

\* Watchdog.heartbeat at time t (on_recover only prints)
Heartbeat(w, t) ==
    [w EXCEPT !.latencies = PushLatency(@, t - w.last_heartbeat),
              !.last_heartbeat = t,
              !.is_frozen = FALSE]

\* variant of the poll: a freeze is detected again while it lasts
FreezeDetectedEveryPoll(w, t) == t - w.last_heartbeat > freeze_threshold

\* Watchdog._monitor_loop: whether one poll at time t detects a freeze
FreezeDetected(w, t) == t - w.last_heartbeat > freeze_threshold /\ ~w.is_frozen

\* Watchdog._monitor_loop: the fields one poll at time t leaves
MonitorPoll(w, t) ==
    IF FreezeDetected(w, t) THEN [w EXCEPT !.is_frozen = TRUE] ELSE w

(***************************************************************************)
(* BackpressureController                                                  *)
(***************************************************************************)
BackpressureLevels == {"normal", "elevated", "high", "critical"}

\* Watchdog.get_stats()["avg_latency"] >= tenths / 10, for the latencies lat
AvgLatencyAtLeast(lat, tenths) ==
    IF lat = <<>> THEN 0 >= tenths ELSE 10 * SumSeq(lat) >= tenths * Len(lat)

\* variant of evaluate: the state of the circuit is not looked at
EvaluateIgnoresCircuit(queue_size, lat, circuit_state) ==
    IF queue_size >= queue_critical THEN "critical"
    ELSE IF queue_size >= queue_high THEN "high"
    ELSE IF AvgLatencyAtLeast(lat, latency_critical) THEN "critical"
    ELSE IF AvgLatencyAtLeast(lat, latency_high) THEN "high"
    ELSE IF queue_size >= queue_elevated \/ AvgLatencyAtLeast(lat, latency_elevated)
    THEN "elevated"
    ELSE "normal"

\* BackpressureController.evaluate(queue_size, avg_latency, circuit_state):
\* the level it sets
Evaluate(queue_size, lat, circuit_state) ==
    IF circuit_state = "open" THEN "critical"
    ELSE IF queue_size >= queue_critical THEN "critical"
    ELSE IF queue_size >= queue_high THEN "high"
    ELSE IF AvgLatencyAtLeast(lat, latency_critical) THEN "critical"
    ELSE IF AvgLatencyAtLeast(lat, latency_high) THEN "high"
    ELSE IF queue_size >= queue_elevated \/ AvgLatencyAtLeast(lat, latency_elevated)
    THEN "elevated"
    ELSE "normal"

\* variant of should_accept: level High accepts every command
ShouldAcceptAllAtHigh(level, is_critical) ==
    IF level = "normal" THEN TRUE
    ELSE IF level = "elevated" THEN TRUE
    ELSE IF level = "high" THEN TRUE
    ELSE FALSE

\* BackpressureController.should_accept
ShouldAccept(level, is_critical) ==
    IF level = "normal" THEN TRUE
    ELSE IF level = "elevated" THEN TRUE
    ELSE IF level = "high" THEN is_critical
    ELSE FALSE

(***************************************************************************)
(* SynapseResponse, CommandHandlerRegistry.execute and the classification  *)
(* of process_commands                                                     *)
(***************************************************************************)
\* SynapseResponse.  error: "" (None), "unknown_command", "validation",
\* "exception" (f"{type(e).__name__}: {e}"), "service_error" (the same with
\* the prefix "Service error: "), or the text of a rejection.  data_type:
\* the data's "type", or what the data is.  reason: the data's "reason"
\* ("" when it has none).  level: the data's "level".  retry_after: the data
\* has a "retry_after"; only the rejections have the last two.
Response(id, success, error, sequence, data_type, reason) ==
    [id |-> id, success |-> success, error |-> error, sequence |-> sequence,
     data_type |-> data_type, reason |-> reason, level |-> "",
     retry_after |-> FALSE]

NoResponse == Response(0, FALSE, "", 0, "", "")

\* what a registered handler (or its validator) does with a payload: returns
\* a result, the validator returns an error, the handler raises one of
\* process_commands' USER_ERROR_TYPES, or it raises something else
\* (TimeoutError, RuntimeError, hou.OperationFailed)
HandlerOutcomes == {"ok", "invalid", "raises_user", "raises_service"}

\* the outcomes open to a command of a type: ping has no validator
OutcomesOf(type) ==
    IF type = "cmd" THEN HandlerOutcomes
    ELSE IF type = "ping" THEN {"ok", "raises_service"}
    ELSE {"ok"}

\* SynapseHandler.handle = CommandHandlerRegistry.execute on the queue entry
\* e: the exception that leaves it ("": none) and the response it returns.
\* self._handlers.get(command.type) raises TypeError for a type that is not
\* hashable; every exception of the handler is caught inside.
Execute(e, outcome) ==
    IF e.type = "unhashable"
    THEN [raised |-> "TypeError", response |-> NoResponse]
    ELSE IF e.type = "unknown"
    THEN [raised |-> "",
          response |-> Response(e.id, FALSE, "unknown_command", e.sequence, "", "")]
    ELSE IF outcome = "invalid"
    THEN [raised |-> "",
          response |-> Response(e.id, FALSE, "validation", e.sequence, "", "")]
    ELSE IF outcome = "ok"
    THEN [raised |-> "",
          response |-> Response(e.id, TRUE, "", e.sequence, "result", "")]
    ELSE [raised |-> "",
          response |-> Response(e.id, FALSE, "exception", e.sequence, "", "")]

\* process_commands' USER_ERROR_TYPES
UserErrorTypes ==
    {"ValueError", "KeyError", "AttributeError", "TypeError", "IndexError", "NameError"}

\* variant of the classification: a response with success = False counts as
\* a failure of the service
ClassifyFailedResponseAsFailure(h) ==
    IF h.raised = ""
    THEN IF h.response.success THEN "success" ELSE "service_error"
    ELSE IF h.raised \in UserErrorTypes THEN "user_error"
    ELSE "service_error"

\* process_commands, the try block around handler.handle: which branch
\* takes the result h of handle
Classify(h) ==
    IF h.raised = ""
    THEN IF h.response.success THEN "success" ELSE "user_error_response"
    ELSE IF h.raised \in UserErrorTypes THEN "user_error"
    ELSE "service_error"

\* process_commands: what the branch records on the breaker at time t
RecordOutcome(b, class, t) ==
    IF class = "service_error" THEN RecordFailure(b, t) ELSE RecordSuccess(b)

\* process_commands: the response the branch enqueues for the entry e
OutcomeResponse(e, h, class) ==
    IF class \in {"success", "user_error_response"} THEN h.response
    ELSE IF class = "user_error"
    THEN Response(e.id, FALSE, "exception", e.sequence, "", "")
    ELSE Response(e.id, FALSE, "service_error", e.sequence, "", "")

(***************************************************************************)
(* PortManager (resilience.py).  _ports maps each managed port to its      *)
(* PortHealth, of which is_active and is_healthy are kept; error_count,    *)
(* last_error, last_check and connections are written and never read by    *)
(* the methods below.                                                      *)
(***************************************************************************)
\* PortManager._active_port: Optional[int] = None
NoPort == -1

\* SynapseServer.__init__: PortManager(primary_port=port,
\* backup_ports=[port - 1, port - 2, port - 3])
backup_ports == <<primary_port - 1, primary_port - 2, primary_port - 3>>

ManagedPorts == {primary_port} \cup {backup_ports[i] : i \in 1 .. Len(backup_ports)}

\* the ports the methods are called with: the managed ones and one that
\* the manager was not constructed with
CalledPorts == ManagedPorts \cup {primary_port + 1}

\* PortManager.__init__: every port healthy, none active
PortManagerInit ==
    [active |-> NoPort,
     ports |-> [p \in ManagedPorts |-> [is_active |-> FALSE, is_healthy |-> TRUE]]]

\* the first healthy port of the list ports, NoPort if there is none
RECURSIVE FirstHealthy(_, _)
FirstHealthy(m, ports) ==
    IF ports = <<>> THEN NoPort
    ELSE IF m.ports[Head(ports)].is_healthy THEN Head(ports)
    ELSE FirstHealthy(m, Tail(ports))

\* PortManager._find_healthy_port
FindHealthyPort(m) ==
    IF m.ports[primary_port].is_healthy THEN primary_port
    ELSE LET b == FirstHealthy(m, backup_ports) IN
         IF b # NoPort THEN b ELSE primary_port

\* get_active_port that returns the active port whatever its health
GetActivePortIgnoresHealth(m) ==
    IF m.active # NoPort THEN m.active ELSE FindHealthyPort(m)

\* PortManager.get_active_port
GetActivePort(m) ==
    IF m.active # NoPort /\ m.ports[m.active].is_healthy THEN m.active
    ELSE FindHealthyPort(m)

\* PortManager.mark_active, for a managed port
MarkActive(m, port) ==
    [active |-> port,
     ports |-> [p \in ManagedPorts |-> [m.ports[p] EXCEPT !.is_active = (p = port)]]]

\* PortManager.mark_unhealthy: nothing for a port that is not managed
MarkUnhealthy(m, port) ==
    IF port \in DOMAIN m.ports
    THEN [m EXCEPT !.ports[port].is_healthy = FALSE]
    ELSE m

\* PortManager.mark_healthy
MarkHealthy(m, port) ==
    IF port \in DOMAIN m.ports
    THEN [m EXCEPT !.ports[port].is_healthy = TRUE]
    ELSE m

\* history: the last direct call on the port manager, its argument and,
\* for get_active_port, the port it returned
NoPMOp == [name |-> "none", port |-> NoPort, result |-> NoPort]

(***************************************************************************)
(* HealthMonitor (resilience.py): check() over the statistics of the five  *)
(* components the server constructs it with.                               *)
(***************************************************************************)
\* the issues check() collects, in the order it appends them.  The texts
\* are "High rate limit rejection", "Circuit breaker OPEN", "Circuit breaker
\* recovering", f"{n} ports unhealthy", "Main thread FROZEN" and
\* f"Backpressure {level.value}"; the level values are lower case.
\*   rejected, total  RateLimiter._rejected_requests and _total_requests
\*   state            CircuitBreaker.get_stats()["state"]
\*   ports            PortManager.get_status()["ports"]
\*   is_frozen        Watchdog.get_stats()["is_frozen"]
\*   level            BackpressureController.level
Issues(rejected, total, state, ports, is_frozen, level) ==
    (IF total > 0 /\ 2 * rejected > total THEN <<"rate_limit">> ELSE <<>>)
    \o (IF state = "open" THEN <<"circuit_OPEN">>
        ELSE IF state = "half_open" THEN <<"circuit_recovering">>
        ELSE <<>>)
    \o (IF Cardinality({p \in DOMAIN ports : ~ports[p].is_healthy}) > 0
        THEN <<"ports_unhealthy">> ELSE <<>>)
    \o (IF is_frozen THEN <<"main_thread_FROZEN">> ELSE <<>>)
    \o (IF level \in {"high", "critical"} THEN <<"backpressure">> ELSE <<>>)

\* "FROZEN" in i or "OPEN" in i, for an issue i of check()
NamesFrozenOrOpen(i) == i \in {"main_thread_FROZEN", "circuit_OPEN"}

\* variant of check: two issues already make the level unhealthy
CheckUnhealthyAtTwo(rejected, total, state, ports, is_frozen, level) ==
    LET issues == Issues(rejected, total, state, ports, is_frozen, level) IN
    IF issues = <<>> THEN [healthy |-> TRUE, level |-> "healthy"]
    ELSE IF \E k \in 1 .. Len(issues) : NamesFrozenOrOpen(issues[k])
    THEN [healthy |-> FALSE, level |-> "critical"]
    ELSE IF Len(issues) >= 2 THEN [healthy |-> FALSE, level |-> "unhealthy"]
    ELSE [healthy |-> TRUE, level |-> "degraded"]

\* HealthMonitor.check: the healthy flag and the level of the HealthStatus
Check(rejected, total, state, ports, is_frozen, level) ==
    LET issues == Issues(rejected, total, state, ports, is_frozen, level) IN
    IF issues = <<>> THEN [healthy |-> TRUE, level |-> "healthy"]
    ELSE IF \E k \in 1 .. Len(issues) : NamesFrozenOrOpen(issues[k])
    THEN [healthy |-> FALSE, level |-> "critical"]
    ELSE IF Len(issues) > 2 THEN [healthy |-> FALSE, level |-> "unhealthy"]
    ELSE [healthy |-> TRUE, level |-> "degraded"]

\* history: the component statistics of the last check() and its answer
NoHMOp == [name |-> "none", rejected |-> 0, total |-> 0, state |-> "closed",
           ports |-> PortManagerInit.ports, is_frozen |-> FALSE,
           level |-> "normal", healthy |-> TRUE, answer |-> "healthy"]

(***************************************************************************)
(* ResponseDeliveryQueue (synapse_tool.py): a list of responses per        *)
(* connection; a connection without an entry in the dict has the empty     *)
(* list.  Each method runs under the queue's lock.                         *)
(***************************************************************************)
\* ResponseDeliveryQueue.enqueue
EnqueueResponse(r, response, client) ==
    [r EXCEPT ![client] = Append(@, response)]

\* ResponseDeliveryQueue.has_responses
HasResponses(r, client) == Len(r[client]) > 0

\* variant of get_responses: the list is returned and left in the queue
GetResponsesKeepsList(r, client) ==
    [returned |-> r[client], responses |-> r]

\* ResponseDeliveryQueue.get_responses: pop(client, []), what it returns and
\* what it leaves
GetResponses(r, client) ==
    [returned |-> r[client], responses |-> [r EXCEPT ![client] = <<>>]]

\* the users of the response queue
\*   enqueued   the ids of the responses enqueued for each connection, in order
\*   delivered  the ids of the responses each connection's thread got from
\*              get_responses, in order
\*   seen       has_responses has just answered True to the connection's thread
RQHistInit == [enqueued |-> [c \in Clients |-> <<>>],
               delivered |-> [c \in Clients |-> <<>>],
               seen |-> [c \in Clients |-> FALSE]]

(***************************************************************************)
(* DeterministicCommandQueue.dequeue(timeout) with its wait: the threads   *)
(* inside dequeue.                                                         *)
(***************************************************************************)
\* the threads that call dequeue
DeqThreads == {"t1", "t2"}

\* a thread outside dequeue, with what its last call did
\*   pc          "idle", "waiting" (inside Condition.wait, the lock released)
\*               or "woken" (the wait has ended, the lock not yet re-taken)
\*   deadline    the time at which the wait in progress times out
\*   found       the sequence number of the oldest entry at the call (NoSeq:
\*               the queue was empty)
\*   waited      the call entered Condition.wait
\*   notified    an enqueue's notify_all ended the wait
\*   result      "none", "entry" or "empty" (None)
\*   sequence    the sequence number of the entry returned
\*   early       the call returned after a wait, before the wait's timeout
\*               had expired
DeqIdle == [pc |-> "idle", deadline |-> 0, found |-> NoSeq, waited |-> FALSE,
            notified |-> FALSE, result |-> "none", sequence |-> NoSeq,
            early |-> FALSE]

\* taken: the sequence numbers of the entries dequeue has returned, in order
DeqInit == [th |-> [t \in DeqThreads |-> DeqIdle], taken |-> <<>>]

\* Condition.wait(timeout) of a waiting thread ends at time t: it was
\* notified or its timeout has expired
WaitEnds(d, t) == d.pc = "waiting" /\ (d.notified \/ t >= d.deadline)

\* Condition.notify_all: every waiting thread is notified
NotifyAll(th) ==
    [t \in DOMAIN th |-> IF th[t].pc = "waiting"
                         THEN [th[t] EXCEPT !.notified = TRUE] ELSE th[t]]

(***************************************************************************)
(* The locks: every `with self._lock:` of resilience.py and synapse_tool.py *)
(* as the sequence of acquisitions and releases the call makes.            *)
(***************************************************************************)
\* RateLimiter._lock, CircuitBreaker._lock, PortManager._lock,
\* Watchdog._lock, BackpressureController._lock,
\* DeterministicCommandQueue._lock, ResponseDeliveryQueue._lock and
\* SynapseServer._clients_lock
Locks == {"rate_limiter", "circuit_breaker", "port_manager", "watchdog",
          "backpressure", "command_queue", "response_queue", "clients"}

\* threading.RLock: the command queue's; the others are threading.Lock
Reentrant == {"command_queue"}

\* the main thread (the host's timer calling process_commands, start and
\* stop), the watchdog's monitor thread and one thread per connection
Threads == {"main", "watchdog"} \cup Clients

NoThread == "none"

Acq(l) == <<"acquire", l>>
Rel(l) == <<"release", l>>

\* variant: the breaker's methods report to the watchdog while they hold the
\* breaker's lock
LockedBreakerCallsWatchdog(l) ==
    IF l = "circuit_breaker"
    THEN <<Acq(l), Acq("watchdog"), Rel("watchdog"), Rel(l)>>
    ELSE <<Acq(l), Rel(l)>>

\* a method whose body runs under the lock l and calls nothing that locks:
\* every locked method but the two below (the callbacks on_state_change,
\* on_port_change and on_health_change are not registered by the server,
\* on_recover only prints, and no locked method calls a locked method of its
\* own object)
Locked(l) == <<Acq(l), Rel(l)>>

\* Watchdog._monitor_loop detecting a freeze: on_freeze, that is
\* _on_main_thread_freeze calling circuit_breaker.force_open(), runs under
\* the watchdog's lock
MonitorDetectsFreeze ==
    <<Acq("watchdog")>> \o Locked("circuit_breaker") \o <<Rel("watchdog")>>

\* DeterministicCommandQueue.dequeue on an empty queue: Condition.wait
\* releases the lock and takes it again before it returns
DequeueWaits ==
    <<Acq("command_queue"), Rel("command_queue"),
      Acq("command_queue"), Rel("command_queue")>>

\* the locked calls a thread makes, one after the other in any order
\*   main        start (mark_active), process_commands (heartbeat, size,
\*               get_stats, state, evaluate, can_execute, dequeue,
\*               record_success or record_failure, response enqueue), stop
\*               (_clients_lock, clear)
\*   watchdog    _monitor_loop
\*   connection  _handle_client (_clients_lock, acquire, can_execute,
\*               should_accept, enqueue, has_responses, get_responses,
\*               get_health over the five components, get_stats,
\*               remove_client) and its _heartbeat_loop (_clients_lock)
Calls(t) ==
    IF t = "main"
    THEN {Locked(l) : l \in {"port_manager", "watchdog", "command_queue",
                             "circuit_breaker", "backpressure",
                             "response_queue", "clients"}}
         \cup {DequeueWaits}
    ELSE IF t = "watchdog"
    THEN {Locked("watchdog"), MonitorDetectsFreeze}
    ELSE {Locked(l) : l \in Locks}

\* no lock is held and no thread is inside a call
LockInit == [owner |-> [l \in Locks |-> NoThread],
             depth |-> [l \in Locks |-> 0],
             todo |-> [t \in Threads |-> <<>>]]

\* the thread t may take the lock l now
CanTake(t, l) ==
    \/ lk.owner[l] = NoThread
    \/ lk.owner[l] = t /\ l \in Reentrant

\* the lock the thread t is about to acquire ("" if none)
Wants(t) ==
    IF lk.todo[t] # <<>> /\ Head(lk.todo[t])[1] = "acquire"
    THEN Head(lk.todo[t])[2] ELSE ""

\* the locks the thread t holds
Holds(t) == {l \in Locks : lk.owner[l] = t}

(***************************************************************************)
(* History of the direct calls on the breaker (CBSpec).                    *)
(***************************************************************************)
NoAnswer == [allowed |-> FALSE, reason |-> "", retry_after |-> NoTime]

NoOp == [name |-> "none", pre |-> CircuitBreakerInit, at |-> 0,
         allowed |-> FALSE, reason |-> "", retry_after |-> NoTime,
         run |-> 0, probes_ok |-> 0]

\* The history of a call `name` that found the fields pre at time now, left
\* the fields post and answered r.
\*   run        record_failure calls made in a row, the first of them on a
\*              CLOSED breaker with a failure count of zero (0: no such row)
\*   probes_ok  record_success calls made since HALF_OPEN was entered
CBOp(name, pre, post, r) ==
    [name |-> name, pre |-> pre, at |-> now,
     allowed |-> r.allowed, reason |-> r.reason, retry_after |-> r.retry_after,
     run |-> IF name # "record_failure" THEN 0
             ELSE IF pre.state = "closed" /\ pre.failure_count = 0 THEN 1
             ELSE IF cb_op.name = "record_failure" /\ cb_op.run > 0 THEN cb_op.run + 1
             ELSE 0,
     probes_ok |-> IF post.state # "half_open" /\ pre.state # "half_open" THEN 0
                   ELSE IF pre.state # "half_open" THEN 0
                   ELSE IF name = "record_success" THEN cb_op.probes_ok + 1
                   ELSE cb_op.probes_ok]

(***************************************************************************)
(* Histories of the direct calls on the rate limiter (RLSpec), the         *)
(* watchdog (WDSpec) and the backpressure controller (BPSpec).             *)
(***************************************************************************)
\* what the history keeps of the call before the last one
NoRLPrev == [name |-> "none", client |-> "", n |-> 0, at |-> 0,
             allowed |-> FALSE, need |-> 0, rate |-> 1]

\* RateLimiter._total_requests and _rejected_requests after __init__
NoStats == [total |-> 0, rejected |-> 0]

\* acquire's counting: every call is a request, every refusal a rejected one
CountRequest(st, a) ==
    [total |-> st.total + 1,
     rejected |-> st.rejected + IF a.allowed THEN 0 ELSE 1]

NoRLOp == [name |-> "none", client |-> "", n |-> 0, at |-> 0,
           pre |-> RateLimiterInit(0),
           allowed |-> FALSE, reason |-> "", need |-> 0, rate |-> 1,
           prev |-> NoRLPrev, stats |-> NoStats]

\* The history of a call `name` of the client c for n tokens that found the
\* fields pre at time now and answered a; prev is the call before it.  The
\* request counters (stats) are followed in RLStatSpec, where the number of
\* calls is bounded; here they stay as they are.
RLOp(name, c, n, pre, a) ==
    [name |-> name, client |-> c, n |-> n, at |-> now, pre |-> pre,
     allowed |-> a.allowed, reason |-> a.reason, need |-> a.need, rate |-> a.rate,
     prev |-> [name |-> rl_op.name, client |-> rl_op.client, n |-> rl_op.n,
               at |-> rl_op.at, allowed |-> rl_op.allowed,
               need |-> rl_op.need, rate |-> rl_op.rate],
     stats |-> rl_op.stats]

\* The watchdog thread and the callbacks.
\*   poll_due     when the sleep of _monitor_loop ends (NoTime: no thread)
\*   last         the last call: "start", "stop", "heartbeat", "poll"
\*   freezes      on_freeze calls so far
\*   recovers     on_recover calls so far
\*   watched      the watchdog has been running since the last heartbeat
\*   gap_polls    polls since the last heartbeat that found it more than
\*                freeze_threshold ago
\*   gap_freezes  on_freeze calls since the last heartbeat
\*   hb_gap, hb_watched, hb_polls, hb_freezes
\*                the time since the heartbeat before it that the last
\*                heartbeat found, and watched, gap_polls and gap_freezes as
\*                it found them
\*   hb_recovers  on_recover calls the last heartbeat made
NoWDOp == [poll_due |-> NoTime, last |-> "none", freezes |-> 0, recovers |-> 0,
           watched |-> FALSE, gap_polls |-> 0, gap_freezes |-> 0,
           hb_gap |-> 0, hb_watched |-> FALSE, hb_polls |-> 0, hb_freezes |-> 0,
           hb_recovers |-> 0]

\* The last call on the backpressure controller: evaluate with its three
\* arguments and the level it returned, or should_accept with its argument
\* and its answer; evaluated is the level the last evaluate returned.
NoBPOp == [name |-> "none", queue_size |-> 0, latencies |-> <<>>,
           circuit_state |-> "closed", evaluated |-> "normal",
           is_critical |-> FALSE, accepted |-> FALSE]

(***************************************************************************)
(* The clock.                                                              *)
(***************************************************************************)
ClockAdvance ==
    /\ now + ClockStep <= MaxTime
    /\ now' = now + ClockStep

(***************************************************************************)
(* SynapseServer: state after __init__, start and stop                     *)
(***************************************************************************)
NoItem == [sequence |-> NoSeq, id |-> 0, type |-> "", client |-> ""]

\* history of the last handler call of the running tick: the entry's type,
\* the handler's outcome, the branch of process_commands that took it, the
\* error of the response, the breaker's state when handle was called, and
\* its state and failure count before and after the branch recorded on it
NoExec == [type |-> "", outcome |-> "", class |-> "", error |-> "",
           state_at_handle |-> "",
           state_before |-> "", failures_before |-> 0,
           state_after |-> "", failures_after |-> 0]

\* a connection thread: where it is in _handle_client (pc), whether the
\* websocket is open, the number (id) and type of the message it is
\* processing, the command's sequence attribute (what the message carried
\* until enqueue assigns it), when its wait for a response began, the
\* admission checks evaluated for the message so far, and the responses it
\* is about to send
ConnInit ==
    [pc |-> "none", open |-> FALSE, n |-> 0, type |-> "", seq |-> 0, start |-> 0,
     trace |-> <<>>, sending |-> <<>>]

Init ==
    /\ now = 0
    /\ srv = "new"
    /\ cb = CircuitBreakerInit
    /\ rl = RateLimiterInit(0)
    /\ wd = WatchdogInit(0)
    /\ bp_level = "normal"
    /\ pending = <<>>
    /\ sequence_counter = 0
    /\ responses = [c \in Clients |-> <<>>]
    /\ conn = [c \in Clients |-> ConnInit]
    /\ tick = [pc |-> "idle", item |-> NoItem, state_at_handle |-> "", budget |-> 0]
    /\ cb_op = NoOp
    /\ q_hist = QHistInit
    /\ exec_hist = NoExec
    /\ rl_op = NoRLOp
    /\ wd_op = NoWDOp
    /\ bp_op = NoBPOp
    /\ pm = PortManagerInit
    /\ pm_op = NoPMOp
    /\ hm_op = NoHMOp
    /\ rq_hist = RQHistInit
    /\ deq = DeqInit
    /\ lk = LockInit

\* SynapseServer.start (the server thread then accepts connections)
Start ==
    /\ srv = "new"
    /\ srv' = "running"
    /\ wd' = WatchdogStart(wd, now)
    /\ pm' = MarkActive(pm, primary_port)
    /\ UNCHANGED <<now, cb, rl, bp_level, pending, sequence_counter, responses,
                   conn, tick, cb_op, q_hist, exec_hist>>
    /\ UNCHANGED <<comp_hist, pm_op, comp_state>>

\* SynapseServer.stop, first part: _running = False and every connection in
\* _clients is closed.  The main thread calls stop, so no tick is running.
StopBegin ==
    /\ srv = "running"
    /\ tick.pc = "idle"
    /\ srv' = "stopping"
    /\ conn' = [c \in Clients |->
                  IF conn[c].pc \in {"none", "done"} THEN conn[c]
                  ELSE [conn[c] EXCEPT !.open = FALSE]]
    /\ UNCHANGED <<now, cb, rl, wd, bp_level, pending, sequence_counter, responses,
                   tick, cb_op, q_hist, exec_hist>>
    /\ UNCHANGED <<comp_hist, pm, pm_op, comp_state>>

\* SynapseServer.stop, second part: command_queue.clear() and
\* watchdog.stop()
StopFinish ==
    /\ srv = "stopping"
    /\ srv' = "stopped"
    /\ pending' = Clear(pending)
    /\ q_hist' = QHistClear(q_hist)
    /\ wd' = WatchdogStop(wd)
    /\ UNCHANGED <<now, cb, rl, bp_level, sequence_counter, responses, conn, tick,
                   cb_op, exec_hist>>
    /\ UNCHANGED <<comp_hist, pm, pm_op, comp_state>>

(***************************************************************************)
(* SynapseServer._handle_client: one thread per connection                 *)
(***************************************************************************)
\* the types of the messages a client sends: those that reach the queue, the
\* two answered inline, a text that is not JSON ("malformed"), and a JSON
\* text that is no object, such as [1, 2] or "run" ("not_object")
MessageTypes == QueuedTypes \cup {"heartbeat", "get_health", "malformed", "not_object"}

\* variant of the inline types: only the heartbeat is answered inline
InlineTypesHeartbeatOnly == {"heartbeat"}

\* the types _handle_client answers at once, before the admission checks
InlineTypes == {"heartbeat", "get_health"}

\* SynapseCommand.from_json: sequence = parsed.get("sequence", 0), so a
\* command starts with the sequence its message carried: 0 when it carried
\* none, or a number of the client's
SentSequences == {0, MaxSeq + 1}

\* the connections the server accepts
Accepted == {"c1"}

\* variant of the order: the order of ResilientSynapseServer.can_accept_command
AdmissionOrderCircuitFirst == <<"circuit", "backpressure", "rate_limit">>

\* the order of the admission checks in _handle_client
AdmissionOrder == <<"rate_limit", "circuit", "backpressure">>

\* is_critical = command.type in ("ping", "get_health", "heartbeat")
IsCritical(type) == type \in {"ping", "get_health", "heartbeat"}

\* the rejection response of the check `check`: its data is the type
\* backpressure and the info of the check, of which the reason, the level
\* and whether it has a retry_after are kept
Rejection(id, check, reason, level, retry_after) ==
    [Response(id, FALSE,
              IF check = "rate_limit" THEN "Rate limit exceeded"
              ELSE IF check = "circuit"
              THEN "Service temporarily unavailable (circuit open)"
              ELSE "Server under heavy load, try again later",
              0, "backpressure", reason)
     EXCEPT !.level = level, !.retry_after = retry_after]

\* the thread's finally block: the connection leaves _clients and the rate
\* limiter forgets its bucket
Cleanup(c) ==
    /\ conn' = [conn EXCEPT ![c].pc = "done", ![c].open = FALSE]
    /\ rl' = RemoveClient(rl, c)

\* the server accepts a connection and starts its thread
Connect(c) ==
    /\ srv = "running"
    /\ conn[c].pc = "none"
    /\ conn' = [conn EXCEPT ![c].pc = "recv", ![c].open = TRUE]
    /\ UNCHANGED <<now, srv, cb, rl, wd, bp_level, pending, sequence_counter,
                   responses, tick, cb_op, q_hist, exec_hist>>
    /\ UNCHANGED <<comp_hist, pm, pm_op, comp_state>>

\* the peer, or the client heartbeat monitor, closes the websocket
Disconnect(c) ==
    /\ conn[c].pc \notin {"none", "done"}
    /\ conn[c].open
    /\ conn' = [conn EXCEPT ![c].open = FALSE]
    /\ UNCHANGED <<now, srv, cb, rl, wd, bp_level, pending, sequence_counter,
                   responses, tick, cb_op, q_hist, exec_hist>>
    /\ UNCHANGED <<comp_hist, pm, pm_op, comp_state>>

\* `for message in websocket` ends: the websocket is closed, or a message
\* arrived and _running is False
ReadLoopEnds(c) ==
    /\ conn[c].pc = "recv"
    /\ ~conn[c].open \/ srv # "running"
    /\ Cleanup(c)
    /\ UNCHANGED <<now, srv, cb, wd, bp_level, pending, sequence_counter,
                   responses, tick, cb_op, q_hist, exec_hist>>
    /\ UNCHANGED <<comp_hist, pm, pm_op, comp_state>>

\* one admission check of _handle_client applied to the admission state s:
\* the limiter and the breaker as the checks so far left them, the checks
\* evaluated, the check that rejected ("" while none has), and of the data
\* of its rejection the reason, the level and whether it has a retry_after:
\* acquire's info has reason and retry_after, can_execute's info has a
\* reason and, when Open, a retry_after, and the backpressure rejection has
\* the level and "retry_after": 1.0
ApplyCheck(s, check, c, type, level, t) ==
    IF s.rejected # "" THEN s
    ELSE IF check = "rate_limit"
    THEN LET r == Acquire(s.rl, c, 1, t) IN
         [s EXCEPT !.rl = r.rl, !.trace = Append(@, check),
                   !.rejected = IF r.allowed THEN "" ELSE check,
                   !.reason = IF r.allowed THEN "" ELSE r.reason,
                   !.retry_after = ~r.allowed]
    ELSE IF check = "circuit"
    THEN LET x == CanExecute(s.cb, t) IN
         [s EXCEPT !.cb = x.cb, !.trace = Append(@, check),
                   !.rejected = IF x.allowed THEN "" ELSE check,
                   !.reason = IF x.allowed THEN "" ELSE x.reason,
                   !.retry_after = ~x.allowed /\ x.retry_after # NoTime]
    ELSE LET ok == ShouldAccept(level, IsCritical(type)) IN
         [s EXCEPT !.trace = Append(@, check),
                   !.rejected = IF ok THEN "" ELSE check,
                   !.level = IF ok THEN "" ELSE level,
                   !.retry_after = ~ok]

\* the admission checks of _handle_client, in their order
Admission(c, type) ==
    LET s0 == [rl |-> rl, cb |-> cb, trace |-> <<>>, rejected |-> "", reason |-> "",
               level |-> "", retry_after |-> FALSE]
        s1 == ApplyCheck(s0, AdmissionOrder[1], c, type, bp_level, now)
        s2 == ApplyCheck(s1, AdmissionOrder[2], c, type, bp_level, now)
    IN ApplyCheck(s2, AdmissionOrder[3], c, type, bp_level, now)

\* a message of the type `type` arrives.  For a JSON text that is no object
\* from_json raises AttributeError (parsed.get), which only the outer
\* `except Exception` catches: the thread ends in its finally block.  The
\* two inline types and a text that is not JSON are answered at once; get_health calls get_stats, which
\* reads circuit_breaker.state, which evaluates the breaker's timeout.  Any
\* other type goes through the admission checks: the first that rejects
\* builds the rejection response, and a message that passes them all is
\* enqueued, which assigns its sequence, and its wait for the response
\* begins.
HandleMessage(c, type) ==
    /\ conn[c].pc = "recv"
    /\ conn[c].open
    /\ srv = "running"
    /\ conn[c].n < MaxMsgs
    /\ \E sent \in SentSequences :
       LET id == conn[c].n + 1
           m == [conn[c] EXCEPT !.n = id, !.type = type,
                                !.seq = IF type \in {"malformed", "not_object"}
                                        THEN 0 ELSE sent]
           a == Admission(c, type)
           r == Enqueue(pending, sequence_counter, Command(type, id), c)
       IN IF type = "not_object"
          THEN /\ conn' = [conn EXCEPT ![c] = [m EXCEPT !.pc = "done", !.open = FALSE]]
               /\ rl' = RemoveClient(rl, c)
               /\ UNCHANGED <<cb, pending, sequence_counter, q_hist>>
          ELSE IF type \in InlineTypes \cup {"malformed"}
          THEN /\ conn' = [conn EXCEPT ![c] = [m EXCEPT
                              !.pc = IF type = "malformed" THEN "send" ELSE "reply",
                              !.sending =
                                  IF type = "malformed"
                                  THEN <<Response(0, FALSE, "Invalid JSON", 0, "", "")>>
                                  ELSE IF type = "heartbeat"
                                  THEN <<Response(id, TRUE, "", 0, "heartbeat", "")>>
                                  ELSE <<Response(id, TRUE, "", 0, "health", "")>>]]
               /\ cb' = IF type = "get_health" THEN CheckStateTransition(cb, now)
                        ELSE cb
               /\ UNCHANGED <<rl, pending, sequence_counter, q_hist>>
          ELSE /\ cb' = a.cb
               /\ rl' = a.rl
               /\ IF a.rejected # ""
                  THEN /\ conn' = [conn EXCEPT ![c] = [m EXCEPT
                                      !.pc = "reply",
                                      !.trace = a.trace,
                                      !.sending = <<Rejection(id, a.rejected, a.reason, a.level,
                                                              a.retry_after)>>]]
                       /\ UNCHANGED <<pending, sequence_counter, q_hist>>
                  ELSE /\ pending' = r.pending
                       /\ sequence_counter' = r.counter
                       /\ q_hist' = QHistEnqueue(q_hist, pending, r)
                       /\ conn' = [conn EXCEPT ![c] = [m EXCEPT
                                      !.pc = "wait",
                                      !.seq = r.seq,
                                      !.trace = a.trace,
                                      !.start = now]]
    /\ UNCHANGED <<now, srv, wd, bp_level, responses, tick, cb_op, exec_hist>>
    /\ UNCHANGED <<comp_hist, pm, pm_op, comp_state>>

\* websocket.send of an inline answer or of a rejection: on a closed
\* websocket it raises ConnectionClosed, which ends the thread
SendReply(c) ==
    /\ conn[c].pc = "reply"
    /\ IF conn[c].open
       THEN /\ conn' = [conn EXCEPT ![c].pc = "recv", ![c].type = "", ![c].seq = 0,
                                    ![c].trace = <<>>, ![c].sending = <<>>]
            /\ rl' = rl
       ELSE /\ conn' = [conn EXCEPT ![c].pc = "done", ![c].type = "", ![c].seq = 0,
                                    ![c].trace = <<>>, ![c].sending = <<>>]
            /\ rl' = RemoveClient(rl, c)
    /\ UNCHANGED <<now, srv, cb, wd, bp_level, pending, sequence_counter,
                   responses, tick, cb_op, q_hist, exec_hist>>
    /\ UNCHANGED <<comp_hist, pm, pm_op, comp_state>>

\* websocket.send of the responses taken from the response queue, or of the
\* Invalid JSON answer: what send raises is ignored
SendResponses(c) ==
    /\ conn[c].pc = "send"
    /\ conn' = [conn EXCEPT ![c].pc = "recv", ![c].type = "", ![c].seq = 0,
                            ![c].trace = <<>>, ![c].sending = <<>>]
    /\ UNCHANGED <<now, srv, cb, rl, wd, bp_level, pending, sequence_counter,
                   responses, tick, cb_op, q_hist, exec_hist>>
    /\ UNCHANGED <<comp_hist, pm, pm_op, comp_state>>

\* the wait loop finds response_queue.has_responses(websocket) and takes
\* what response_queue.get_responses(websocket) returns
WaitSeesResponse(c) ==
    /\ conn[c].pc = "wait"
    /\ srv = "running"
    /\ now - conn[c].start < COMMAND_TIMEOUT
    /\ responses[c] # <<>>
    /\ responses' = [responses EXCEPT ![c] = <<>>]
    /\ conn' = [conn EXCEPT ![c].pc = "send", ![c].start = 0,
                            ![c].sending = responses[c]]
    /\ UNCHANGED <<now, srv, cb, rl, wd, bp_level, pending, sequence_counter,
                   tick, cb_op, q_hist, exec_hist>>
    /\ UNCHANGED <<comp_hist, pm, pm_op, comp_state>>

\* the wait loop ends without a response: COMMAND_TIMEOUT has passed, or
\* _running is False
WaitGivesUp(c) ==
    /\ conn[c].pc = "wait"
    /\ now - conn[c].start >= COMMAND_TIMEOUT \/ srv # "running"
    /\ conn' = [conn EXCEPT ![c].pc = "recv", ![c].start = 0, ![c].type = "",
                            ![c].seq = 0, ![c].trace = <<>>]
    /\ UNCHANGED <<now, srv, cb, rl, wd, bp_level, pending, sequence_counter,
                   responses, tick, cb_op, q_hist, exec_hist>>
    /\ UNCHANGED <<comp_hist, pm, pm_op, comp_state>>

(***************************************************************************)
(* SynapseServer.process_commands: the tick of the main thread             *)
(***************************************************************************)
\* variant of the tick's preamble: the drain starts whatever can_execute
\* answered
TickBeginDrainsAnyway ==
    /\ srv = "running"
    /\ tick.pc = "idle"
    /\ LET w == Heartbeat(wd, now)
           b == CheckStateTransition(cb, now)
           x == CanExecute(b, now)
       IN /\ wd' = w
          /\ bp_level' = Evaluate(Len(pending), w.latencies, b.state)
          /\ cb' = x.cb
          /\ tick' = [tick EXCEPT !.pc = "drain", !.budget = Len(pending)]
    /\ UNCHANGED <<now, srv, rl, pending, sequence_counter, responses, conn,
                   cb_op, q_hist, exec_hist>>
    /\ UNCHANGED <<comp_hist, pm, pm_op, comp_state>>

\* watchdog.heartbeat(), backpressure.evaluate(queue size, average latency,
\* circuit_breaker.state.value), where reading the state evaluates the
\* breaker's timeout, then circuit_breaker.can_execute(): refused, the tick
\* returns 0
TickBegin ==
    /\ srv = "running"
    /\ tick.pc = "idle"
    /\ LET w == Heartbeat(wd, now)
           b == CheckStateTransition(cb, now)
           x == CanExecute(b, now)
       IN /\ wd' = w
          /\ bp_level' = Evaluate(Len(pending), w.latencies, b.state)
          /\ cb' = x.cb
          /\ tick' = [tick EXCEPT !.pc = IF x.allowed THEN "drain" ELSE "idle",
                                 !.budget = IF x.allowed THEN Len(pending) ELSE 0]
    /\ UNCHANGED <<now, srv, rl, pending, sequence_counter, responses, conn,
                   cb_op, q_hist, exec_hist>>
    /\ UNCHANGED <<comp_hist, pm, pm_op, comp_state>>

\* command_queue.dequeue(timeout=0.001) returns the oldest entry and
\* handler.handle(command) is called; state_at_handle notes the state a
\* reader of circuit_breaker.state would see at that moment
TickDequeue ==
    /\ tick.pc = "drain"
    /\ pending # <<>>
    /\ LET r == Dequeue(pending) IN
        /\ pending' = r.pending
        /\ q_hist' = QHistDequeue(q_hist, r)
        /\ tick' = [pc |-> "execute", item |-> r.item,
                    state_at_handle |-> CheckStateTransition(cb, now).state,
                    budget |-> tick.budget - 1]
    /\ exec_hist' = NoExec
    /\ UNCHANGED <<now, srv, cb, rl, wd, bp_level, sequence_counter, responses,
                   conn, cb_op>>
    /\ UNCHANGED <<comp_hist, pm, pm_op, comp_state>>

\* command_queue.dequeue returns None: the tick returns
TickReturn ==
    /\ tick.pc = "drain"
    /\ pending = <<>>
    /\ tick' = [pc |-> "idle", item |-> NoItem, state_at_handle |-> "", budget |-> 0]
    /\ exec_hist' = NoExec
    /\ UNCHANGED <<now, srv, cb, rl, wd, bp_level, pending, sequence_counter,
                   responses, conn, cb_op, q_hist>>
    /\ UNCHANGED <<comp_hist, pm, pm_op, comp_state>>

\* handler.handle(command) returns or raises, with the outcome `outcome` of
\* the handler; the branch that takes it records on the breaker and
\* response_queue.enqueue(response, client)
TickExecute(outcome) ==
    /\ tick.pc = "execute"
    /\ outcome \in OutcomesOf(tick.item.type)
    /\ LET e == tick.item
           h == Execute(e, outcome)
           class == Classify(h)
           b == RecordOutcome(cb, class, now)
           resp == OutcomeResponse(e, h, class)
       IN /\ cb' = b
          /\ responses' = [responses EXCEPT ![e.client] = Append(@, resp)]
          /\ exec_hist' = [type |-> e.type, outcome |-> outcome, class |-> class,
                           error |-> resp.error,
                           state_at_handle |-> tick.state_at_handle,
                           state_before |-> cb.state,
                           failures_before |-> cb.failure_count,
                           state_after |-> b.state,
                           failures_after |-> b.failure_count]
    /\ tick' = [pc |-> "drain", item |-> NoItem, state_at_handle |-> "",
                budget |-> tick.budget]
    /\ UNCHANGED <<now, srv, rl, wd, bp_level, pending, sequence_counter, conn,
                   cb_op, q_hist>>
    /\ UNCHANGED <<comp_hist, pm, pm_op, comp_state>>

(***************************************************************************)
(* Watchdog._monitor_loop: the watchdog thread                             *)
(***************************************************************************)
\* one poll that detects a freeze: _is_frozen is set and on_freeze, which is
\* SynapseServer._on_main_thread_freeze, forces the breaker open
WatchdogDetectsFreeze ==
    /\ wd.running
    /\ FreezeDetected(wd, now)
    /\ wd' = [wd EXCEPT !.is_frozen = TRUE]
    /\ cb' = ForceOpen(cb, now)
    /\ UNCHANGED <<now, srv, rl, bp_level, pending, sequence_counter, responses,
                   conn, tick, cb_op, q_hist, exec_hist>>
    /\ UNCHANGED <<comp_hist, pm, pm_op, comp_state>>

Tick ==
    \/ TickBegin
    \/ TickDequeue
    \/ TickReturn
    \/ \E outcome \in HandlerOutcomes : TickExecute(outcome)

Connection(c) ==
    \/ Connect(c)
    \/ Disconnect(c)
    \/ ReadLoopEnds(c)
    \/ \E type \in MessageTypes : HandleMessage(c, type)
    \/ SendReply(c)
    \/ SendResponses(c)
    \/ WaitSeesResponse(c)
    \/ WaitGivesUp(c)

\* time passes between ticks and while a handler runs; the steps of a tick
\* around the handler calls take none
Time ==
    /\ tick.pc # "drain"
    /\ ClockAdvance
    /\ UNCHANGED <<srv, cb, rl, wd, bp_level, pending, sequence_counter, responses,
                   conn, tick, cb_op, q_hist, exec_hist>>
    /\ UNCHANGED <<comp_hist, pm, pm_op, comp_state>>

Next ==
    \/ Start
    \/ StopBegin
    \/ StopFinish
    \/ Tick
    \/ WatchdogDetectsFreeze
    \/ \E c \in Accepted : Connection(c)
    \/ Time

Spec == Init /\ [][Next]_vars

(***************************************************************************)
(* CBSpec: the CircuitBreaker alone, its methods called in any order at    *)
(* any time.                                                               *)
(***************************************************************************)
CBRest == <<srv, rl, wd, bp_level, pending, sequence_counter, responses, conn,
            tick, q_hist, exec_hist, comp_hist, pm, pm_op, comp_state>>

CBCanExecute ==
    LET r == CanExecute(cb, now) IN
    /\ cb' = r.cb
    /\ cb_op' = CBOp("can_execute", cb, r.cb, r)
    /\ UNCHANGED <<now, CBRest>>

CBReadState ==
    LET post == CheckStateTransition(cb, now) IN
    /\ cb' = post
    /\ cb_op' = CBOp("state", cb, post, NoAnswer)
    /\ UNCHANGED <<now, CBRest>>

CBRecordSuccess ==
    LET post == RecordSuccess(cb) IN
    /\ cb' = post
    /\ cb_op' = CBOp("record_success", cb, post, NoAnswer)
    /\ UNCHANGED <<now, CBRest>>

CBRecordFailure ==
    LET post == RecordFailure(cb, now) IN
    /\ cb.failure_count < MaxFailures
    /\ cb' = post
    /\ cb_op' = CBOp("record_failure", cb, post, NoAnswer)
    /\ UNCHANGED <<now, CBRest>>

CBForceOpen ==
    LET post == ForceOpen(cb, now) IN
    /\ cb' = post
    /\ cb_op' = CBOp("force_open", cb, post, NoAnswer)
    /\ UNCHANGED <<now, CBRest>>

CBForceClose ==
    LET post == ForceClose(cb) IN
    /\ cb' = post
    /\ cb_op' = CBOp("force_close", cb, post, NoAnswer)
    /\ UNCHANGED <<now, CBRest>>

\* time passes between the calls, by a whole or half a step of the clock
CBClock ==
    \E d \in {ClockStep \div 2, ClockStep} :
        /\ now + d <= MaxTime
        /\ now' = now + d
        /\ UNCHANGED <<cb, cb_op, CBRest>>

CBNext ==
    \/ CBCanExecute
    \/ CBReadState
    \/ CBRecordSuccess
    \/ CBRecordFailure
    \/ CBForceOpen
    \/ CBForceClose
    \/ CBClock

CBSpec == Init /\ [][CBNext]_vars

(***************************************************************************)
(* QueueSpec: the DeterministicCommandQueue alone, with enqueue, dequeue   *)
(* and clear called in any order by any thread.                            *)
(***************************************************************************)
QRest == <<now, srv, cb, rl, wd, bp_level, responses, conn, tick, cb_op,
           exec_hist, comp_hist, pm, pm_op, comp_state>>

\* enqueue(command, client) by the thread of any connection; clients choose
\* the ids of their commands, so two commands may carry the same id
QEnqueue ==
    \E c \in Clients, id \in {1, 2} :
        LET r == Enqueue(pending, sequence_counter, Command("cmd", id), c) IN
        /\ sequence_counter < MaxSeq
        /\ pending' = r.pending
        /\ sequence_counter' = r.counter
        /\ q_hist' = QHistEnqueue(q_hist, pending, r)
        /\ UNCHANGED QRest

QDequeue ==
    /\ pending # <<>>
    /\ LET r == Dequeue(pending) IN
        /\ pending' = r.pending
        /\ q_hist' = QHistDequeue(q_hist, r)
    /\ UNCHANGED <<sequence_counter, QRest>>

\* dequeue on a queue that stays empty returns None after the timeout
QDequeueEmpty ==
    /\ pending = <<>>
    /\ UNCHANGED vars

QClear ==
    /\ pending' = Clear(pending)
    /\ q_hist' = QHistClear(q_hist)
    /\ UNCHANGED <<sequence_counter, QRest>>

QNext ==
    \/ QEnqueue
    \/ QDequeue
    \/ QDequeueEmpty
    \/ QClear

QueueSpec == Init /\ [][QNext]_vars


(***************************************************************************)
(* RLSpec: a RateLimiter alone, acquire and remove_client called for any   *)
(* client in any order at any time.                                        *)
(***************************************************************************)
RLRest == <<srv, cb, wd, bp_level, pending, sequence_counter, responses, conn,
            tick, cb_op, q_hist, exec_hist, wd_op, bp_op, pm, pm_op, comp_state>>

RLInit ==
    /\ now = 0
    /\ srv = "new"
    /\ cb = CircuitBreakerInit
    /\ rl = RateLimiterNew(5 * RLClientRate, RLBucket, RLClientBucket, 0)
    /\ wd = WatchdogInit(0)
    /\ bp_level = "normal"
    /\ pending = <<>>
    /\ sequence_counter = 0
    /\ responses = [c \in Clients |-> <<>>]
    /\ conn = [c \in Clients |-> ConnInit]
    /\ tick = [pc |-> "idle", item |-> NoItem, state_at_handle |-> "", budget |-> 0]
    /\ cb_op = NoOp
    /\ q_hist = QHistInit
    /\ exec_hist = NoExec
    /\ rl_op = NoRLOp
    /\ wd_op = NoWDOp
    /\ bp_op = NoBPOp
    /\ pm = PortManagerInit
    /\ pm_op = NoPMOp
    /\ hm_op = NoHMOp
    /\ rq_hist = RQHistInit
    /\ deq = DeqInit
    /\ lk = LockInit

RLAcquire ==
    \E c \in Clients, n \in 1 .. RLMaxTokens :
        LET a == Acquire(rl, c, n, now) IN
        /\ rl' = a.rl
        /\ rl_op' = RLOp("acquire", c, n, rl, a)
        /\ UNCHANGED <<now, RLRest>>

RLRemoveClient ==
    \E c \in Clients :
        /\ rl' = RemoveClient(rl, c)
        /\ rl_op' = RLOp("remove_client", c, 0, rl,
                         [allowed |-> FALSE, reason |-> "", need |-> 0, rate |-> 1])
        /\ UNCHANGED <<now, RLRest>>

RLClock ==
    /\ now + 1 <= RLMaxTime
    /\ now' = now + 1
    /\ UNCHANGED <<rl, rl_op, RLRest>>

RLNext ==
    \/ RLAcquire
    \/ RLRemoveClient
    \/ RLClock

RLSpec == RLInit /\ [][RLNext]_vars

(***************************************************************************)
(* WDSpec: a Watchdog alone.  start, stop and heartbeat are called in any  *)
(* order at any time; the watchdog thread sleeps heartbeat_interval, polls *)
(* and, if the watchdog is still running, sleeps again.                    *)
(***************************************************************************)
WDRest == <<srv, cb, rl, bp_level, pending, sequence_counter, responses, conn,
            tick, cb_op, q_hist, exec_hist, rl_op, bp_op, pm, pm_op, comp_state>>

\* Watchdog.start: a new thread unless the watchdog is running.  stop joins
\* the thread, so the thread of an earlier start has ended.
WDStart ==
    /\ wd.running \/ wd_op.poll_due = NoTime
    /\ wd' = WatchdogStart(wd, now)
    /\ wd_op' = IF wd.running THEN [wd_op EXCEPT !.last = "start"]
                ELSE [wd_op EXCEPT !.last = "start",
                                   !.poll_due = now + heartbeat_interval,
                                   !.watched = TRUE]
    /\ UNCHANGED <<now, WDRest>>

\* Watchdog.stop: the thread ends after the poll that follows its sleep
WDStop ==
    /\ wd' = WatchdogStop(wd)
    /\ wd_op' = [wd_op EXCEPT !.last = "stop", !.watched = FALSE]
    /\ UNCHANGED <<now, WDRest>>

\* Watchdog.heartbeat: on_recover is called if _is_frozen was set
WDHeartbeat ==
    LET recovered == IF wd.is_frozen THEN 1 ELSE 0 IN
    /\ wd' = Heartbeat(wd, now)
    /\ wd_op' = [wd_op EXCEPT !.last = "heartbeat",
                              !.recovers = @ + recovered,
                              !.hb_recovers = recovered,
                              !.hb_gap = now - wd.last_heartbeat,
                              !.hb_watched = wd_op.watched,
                              !.hb_polls = wd_op.gap_polls,
                              !.hb_freezes = wd_op.gap_freezes,
                              !.gap_polls = 0,
                              !.gap_freezes = 0,
                              !.watched = wd.running]
    /\ UNCHANGED <<now, WDRest>>

\* the sleep of the watchdog thread has ended: one poll, with on_freeze
\* called if it detects a freeze
WDPoll ==
    LET fired == IF FreezeDetected(wd, now) THEN 1 ELSE 0
        seen == IF now - wd.last_heartbeat > freeze_threshold THEN 1 ELSE 0
    IN
    /\ wd_op.poll_due # NoTime
    /\ now >= wd_op.poll_due
    /\ wd' = MonitorPoll(wd, now)
    /\ wd_op' = [wd_op EXCEPT !.last = "poll",
                              !.poll_due = IF wd.running
                                           THEN now + heartbeat_interval
                                           ELSE NoTime,
                              !.freezes = @ + fired,
                              !.gap_freezes = @ + fired,
                              !.gap_polls = @ + seen]
    /\ UNCHANGED <<now, WDRest>>

\* a second passes; a sleep of the thread overruns by PollSlack at most
WDClock ==
    /\ now + 1 <= WDMaxTime
    /\ wd_op.poll_due # NoTime => now + 1 <= wd_op.poll_due + PollSlack
    /\ now' = now + 1
    /\ UNCHANGED <<wd, wd_op, WDRest>>

WDNext ==
    \/ WDStart
    \/ WDStop
    \/ WDHeartbeat
    \/ WDPoll
    \/ WDClock

WDSpec == Init /\ [][WDNext]_vars

(***************************************************************************)
(* BPSpec: a BackpressureController alone, evaluate called with any        *)
(* arguments and should_accept with either argument, in any order.         *)
(***************************************************************************)
BPRest == <<now, srv, cb, rl, wd, pending, sequence_counter, responses, conn,
            tick, cb_op, q_hist, exec_hist, rl_op, wd_op, pm, pm_op, comp_state>>

\* the latencies whose average evaluate is called with: up to len samples,
\* in ascending order, as the average does not depend on the order
RECURSIVE LatencySamples(_)
LatencySamples(len) ==
    IF len = 0 THEN {<<>>}
    ELSE LET shorter == LatencySamples(len - 1)
             longest == {t \in shorter : Len(t) = len - 1}
         IN shorter \cup UNION {{Append(t, x) : x \in (IF len = 1 THEN 0 ELSE t[len - 1])
                                                         .. BPMaxLatency} :
                                 t \in longest}

BPEvaluate ==
    \E queue_size \in 0 .. BPMaxQueue, lat \in LatencySamples(BPMaxSamples),
       circuit_state \in CircuitStates :
        LET level == Evaluate(queue_size, lat, circuit_state) IN
        /\ bp_level' = level
        /\ bp_op' = [bp_op EXCEPT !.name = "evaluate",
                                  !.queue_size = queue_size,
                                  !.latencies = lat,
                                  !.circuit_state = circuit_state,
                                  !.evaluated = level]
        /\ UNCHANGED BPRest

BPShouldAccept ==
    \E is_critical \in BOOLEAN :
        /\ bp_op' = [bp_op EXCEPT !.name = "should_accept",
                                  !.is_critical = is_critical,
                                  !.accepted = ShouldAccept(bp_level, is_critical)]
        /\ UNCHANGED <<bp_level, BPRest>>

BPNext ==
    \/ BPEvaluate
    \/ BPShouldAccept

BPSpec == Init /\ [][BPNext]_vars
(***************************************************************************)
(* PMSpec: a PortManager alone, mark_active, mark_unhealthy, mark_healthy  *)
(* and get_active_port called in any order.                                *)
(***************************************************************************)
PMRest == <<now, srv, cb, rl, wd, bp_level, pending, sequence_counter, responses,
            conn, tick, cb_op, q_hist, exec_hist, comp_hist, comp_state>>

PMMarkActive ==
    \E port \in ManagedPorts :
        /\ pm' = MarkActive(pm, port)
        /\ pm_op' = [name |-> "mark_active", port |-> port, result |-> NoPort]
        /\ UNCHANGED PMRest

PMMarkUnhealthy ==
    \E port \in CalledPorts :
        /\ pm' = MarkUnhealthy(pm, port)
        /\ pm_op' = [name |-> "mark_unhealthy", port |-> port, result |-> NoPort]
        /\ UNCHANGED PMRest

PMMarkHealthy ==
    \E port \in CalledPorts :
        /\ pm' = MarkHealthy(pm, port)
        /\ pm_op' = [name |-> "mark_healthy", port |-> port, result |-> NoPort]
        /\ UNCHANGED PMRest

PMGetActivePort ==
    /\ pm_op' = [name |-> "get_active_port", port |-> NoPort,
                 result |-> GetActivePort(pm)]
    /\ UNCHANGED <<pm, PMRest>>

PMNext ==
    \/ PMMarkActive
    \/ PMMarkUnhealthy
    \/ PMMarkHealthy
    \/ PMGetActivePort

PMSpec == Init /\ [][PMNext]_vars

(***************************************************************************)
(* HMSpec: HealthMonitor.check over every combination of component         *)
(* statistics, up to HMMaxRequests requests at the rate limiter.  The      *)
(* statistics are drawn at the start; check reads them.                    *)
(***************************************************************************)
HMMaxRequests == 3

HMRest == <<now, srv, cb, rl, wd, bp_level, pending, sequence_counter, responses,
            conn, tick, cb_op, q_hist, exec_hist, comp_hist, pm, pm_op,
            rq_hist, deq, lk>>

HMInit ==
    /\ now = 0
    /\ srv = "new"
    /\ cb = CircuitBreakerInit
    /\ rl = RateLimiterInit(0)
    /\ wd = WatchdogInit(0)
    /\ bp_level = "normal"
    /\ pending = <<>>
    /\ sequence_counter = 0
    /\ responses = [c \in Clients |-> <<>>]
    /\ conn = [c \in Clients |-> ConnInit]
    /\ tick = [pc |-> "idle", item |-> NoItem, state_at_handle |-> "", budget |-> 0]
    /\ cb_op = NoOp
    /\ q_hist = QHistInit
    /\ exec_hist = NoExec
    /\ rl_op = NoRLOp
    /\ wd_op = NoWDOp
    /\ bp_op = NoBPOp
    /\ pm = PortManagerInit
    /\ pm_op = NoPMOp
    /\ rq_hist = RQHistInit
    /\ deq = DeqInit
    /\ lk = LockInit
    /\ \E total \in 0 .. HMMaxRequests, state \in CircuitStates,
          health \in [ManagedPorts -> BOOLEAN], is_frozen \in BOOLEAN,
          level \in BackpressureLevels :
           \E rejected \in 0 .. total :
               hm_op = [NoHMOp EXCEPT
                           !.rejected = rejected, !.total = total,
                           !.state = state,
                           !.ports = [p \in ManagedPorts |->
                                         [is_active |-> FALSE,
                                          is_healthy |-> health[p]]],
                           !.is_frozen = is_frozen, !.level = level]

HMCheck ==
    LET s == Check(hm_op.rejected, hm_op.total, hm_op.state, hm_op.ports,
                   hm_op.is_frozen, hm_op.level)
    IN  /\ hm_op' = [hm_op EXCEPT !.name = "check", !.healthy = s.healthy,
                                  !.answer = s.level]
        /\ UNCHANGED HMRest

HMNext == HMCheck

HMSpec == HMInit /\ [][HMNext]_vars

(***************************************************************************)
(* RQSpec: the ResponseDeliveryQueue alone: the main thread enqueues up to *)
(* RQMaxResponses responses for any connection while every connection's    *)
(* thread polls has_responses and takes get_responses, as the wait loop of *)
(* _handle_client does, in any interleaving.                               *)
(***************************************************************************)
RQMaxResponses == 4

RQRest == <<now, srv, cb, rl, wd, bp_level, pending, sequence_counter, conn,
            tick, cb_op, q_hist, exec_hist, comp_hist, pm, pm_op, hm_op, deq, lk>>

\* the ids of the responses of a list
RECURSIVE Ids(_)
Ids(s) == IF s = <<>> THEN <<>> ELSE <<Head(s).id>> \o Ids(Tail(s))

\* the number of responses enqueued so far for the connections of the set S
RECURSIVE EnqueuedFor(_)
EnqueuedFor(S) ==
    IF S = {} THEN 0
    ELSE LET c == CHOOSE x \in S : TRUE IN
         Len(rq_hist.enqueued[c]) + EnqueuedFor(S \ {c})

RQTotal == EnqueuedFor(Clients)

\* process_commands: response_queue.enqueue(response, client), the response
\* carrying the id of its command
RQEnqueue(c) ==
    /\ RQTotal < RQMaxResponses
    /\ LET id == RQTotal + 1 IN
        /\ responses' = EnqueueResponse(responses, Response(id, TRUE, "", id, "", ""), c)
        /\ rq_hist' = [rq_hist EXCEPT !.enqueued[c] = Append(@, id)]
    /\ UNCHANGED RQRest

\* the wait loop: response_queue.has_responses(websocket)
RQHasResponses(c) ==
    /\ ~rq_hist.seen[c]
    /\ rq_hist' = [rq_hist EXCEPT !.seen[c] = HasResponses(responses, c)]
    /\ UNCHANGED <<responses, RQRest>>

\* the wait loop: response_queue.get_responses(websocket) after
\* has_responses answered True
RQGetResponses(c) ==
    /\ rq_hist.seen[c]
    /\ LET g == GetResponses(responses, c) IN
        /\ responses' = g.responses
        /\ rq_hist' = [rq_hist EXCEPT !.seen[c] = FALSE,
                                      !.delivered[c] = @ \o Ids(g.returned)]
    /\ UNCHANGED RQRest

RQNext ==
    \E c \in Clients :
        \/ RQEnqueue(c)
        \/ RQHasResponses(c)
        \/ RQGetResponses(c)

RQSpec == Init /\ [][RQNext]_vars

(***************************************************************************)
(* LockSpec: the threads of the server making their locked calls in any    *)
(* interleaving.                                                           *)
(***************************************************************************)
LockRest == <<now, srv, cb, rl, wd, bp_level, pending, sequence_counter,
              responses, conn, tick, cb_op, q_hist, exec_hist, comp_hist, pm,
              pm_op, hm_op, rq_hist, deq>>

\* the thread t enters one of its calls
LockCall(t) ==
    /\ lk.todo[t] = <<>>
    /\ \E ops \in Calls(t) : lk' = [lk EXCEPT !.todo[t] = ops]
    /\ UNCHANGED LockRest

\* lock.acquire(): blocks while another thread holds the lock, and while the
\* thread itself holds it unless the lock is reentrant
LockAcquire(t) ==
    /\ Wants(t) # ""
    /\ CanTake(t, Wants(t))
    /\ lk' = [lk EXCEPT !.owner[Wants(t)] = t, !.depth[Wants(t)] = @ + 1,
                        !.todo[t] = Tail(@)]
    /\ UNCHANGED LockRest

\* lock.release()
LockRelease(t) ==
    /\ lk.todo[t] # <<>>
    /\ Head(lk.todo[t])[1] = "release"
    /\ LET l == Head(lk.todo[t])[2] IN
        lk' = [lk EXCEPT !.depth[l] = @ - 1,
                         !.owner[l] = IF lk.depth[l] = 1 THEN NoThread ELSE @,
                         !.todo[t] = Tail(@)]
    /\ UNCHANGED LockRest

LockNext ==
    \E t \in Threads :
        \/ LockCall(t)
        \/ LockAcquire(t)
        \/ LockRelease(t)

LockSpec == Init /\ [][LockNext]_vars

(***************************************************************************)
(* DQSpec: dequeue(timeout) called by two threads while other threads      *)
(* enqueue and clear, the clock running up to DQMaxTime.  A thread whose   *)
(* wait has ended is scheduled, and the clock runs: the fairness of DQSpec.*)
(***************************************************************************)
DQTimeout == 2
DQMaxTime == 4
DQMaxEnqueue == 3

DQRest == <<srv, cb, rl, wd, bp_level, responses, conn, tick, cb_op, q_hist,
            exec_hist, comp_hist, pm, pm_op, hm_op, rq_hist, lk>>

\* enqueue by any thread, with its notify_all
DQEnqueue ==
    \E c \in Clients :
        LET r == Enqueue(pending, sequence_counter, Command("cmd", 1), c) IN
        /\ sequence_counter < DQMaxEnqueue
        /\ pending' = r.pending
        /\ sequence_counter' = r.counter
        /\ deq' = [deq EXCEPT !.th = NotifyAll(@)]
        /\ UNCHANGED <<now, DQRest>>

\* clear by any thread
DQClear ==
    /\ pending # <<>>
    /\ pending' = Clear(pending)
    /\ UNCHANGED <<now, sequence_counter, deq, DQRest>>

\* dequeue(timeout) is called: on a queue that is not empty it returns the
\* oldest entry, on an empty queue it enters Condition.wait(timeout)
DQCall(t) ==
    /\ deq.th[t].pc = "idle"
    /\ now + DQTimeout <= DQMaxTime
    /\ IF pending # <<>>
       THEN LET r == Dequeue(pending) IN
            /\ pending' = r.pending
            /\ deq' = [deq EXCEPT
                          !.th[t] = [DeqIdle EXCEPT
                                        !.found = Head(pending).sequence,
                                        !.result = "entry",
                                        !.sequence = r.item.sequence],
                          !.taken = Append(@, r.item.sequence)]
       ELSE /\ pending' = pending
            /\ deq' = [deq EXCEPT
                          !.th[t] = [DeqIdle EXCEPT
                                        !.pc = "waiting",
                                        !.waited = TRUE,
                                        !.deadline = now + DQTimeout]]
    /\ UNCHANGED <<now, sequence_counter, DQRest>>

\* Condition.wait ends: notified, or the timeout has expired
DQWaitEnds(t) ==
    /\ WaitEnds(deq.th[t], now)
    /\ deq' = [deq EXCEPT !.th[t].pc = "woken"]
    /\ UNCHANGED <<now, pending, sequence_counter, DQRest>>

\* the thread has the lock again: `if not self._pending: return None`, else
\* popitem(last=False)
DQResume(t) ==
    /\ deq.th[t].pc = "woken"
    /\ IF pending = <<>>
       THEN /\ pending' = pending
            /\ deq' = [deq EXCEPT !.th[t].pc = "idle",
                                  !.th[t].result = "empty",
                                  !.th[t].early = now < deq.th[t].deadline,
                                  !.th[t].deadline = 0]
       ELSE LET r == Dequeue(pending) IN
            /\ pending' = r.pending
            /\ deq' = [deq EXCEPT !.th[t].pc = "idle",
                                  !.th[t].result = "entry",
                                  !.th[t].sequence = r.item.sequence,
                                  !.th[t].early = now < deq.th[t].deadline,
                                  !.th[t].deadline = 0,
                                  !.taken = Append(@, r.item.sequence)]
    /\ UNCHANGED <<now, sequence_counter, DQRest>>

\* time passes
DQClock ==
    /\ now < DQMaxTime
    /\ now' = now + 1
    /\ UNCHANGED <<pending, sequence_counter, deq, DQRest>>

DQNext ==
    \/ DQEnqueue
    \/ DQClear
    \/ DQClock
    \/ \E t \in DeqThreads :
        \/ DQCall(t)
        \/ DQWaitEnds(t)
        \/ DQResume(t)

DQSpec ==
    /\ Init /\ [][DQNext]_vars
    /\ WF_vars(DQClock)
    /\ \A t \in DeqThreads : WF_vars(DQWaitEnds(t)) /\ WF_vars(DQResume(t))

(***************************************************************************)
(* RLStatSpec: the RateLimiter alone with its request counters: up to      *)
(* RLMaxRequests acquire calls for 0 to RLMaxTokens tokens, by any client  *)
(* at any time of a clock that never runs backwards.                       *)
(***************************************************************************)
RLMaxRequests == 4

RLSAcquire ==
    \E c \in Clients, n \in 0 .. RLMaxTokens :
        LET a == Acquire(rl, c, n, now) IN
        /\ rl_op.stats.total < RLMaxRequests
        /\ rl' = a.rl
        /\ rl_op' = [NoRLOp EXCEPT !.name = "acquire", !.client = c, !.n = n,
                                   !.allowed = a.allowed,
                                   !.stats = CountRequest(rl_op.stats, a)]
        /\ UNCHANGED <<now, RLRest>>

RLSRemoveClient ==
    \E c \in Clients :
        /\ rl.buckets[c].present
        /\ rl' = RemoveClient(rl, c)
        /\ UNCHANGED <<now, rl_op, RLRest>>

RLSClock ==
    /\ now + 1 <= RLMaxTime
    /\ now' = now + 1
    /\ UNCHANGED <<rl, rl_op, RLRest>>

RLSNext ==
    \/ RLSAcquire
    \/ RLSRemoveClient
    \/ RLSClock

RLStatSpec == RLInit /\ [][RLSNext]_vars

(***************************************************************************)
(* The command queue's properties.                                         *)
(***************************************************************************)

\* C1: dequeue hands the commands out in strictly increasing sequence
\* order: each sequence number handed out is larger than every one handed
\* out before, and smaller than that of every command still in the queue,
\* which holds its commands in increasing sequence order.
C1_DequeueInSequenceOrder ==
    /\ q_hist.dequeued # NoSeq => q_hist.dequeued > q_hist.dequeued_before
    /\ \A i \in 1..Len(pending) : pending[i].sequence > q_hist.dequeued
    /\ \A i, j \in 1..Len(pending) :
          i < j => pending[i].sequence < pending[j].sequence

\* C1 witness: a second command was dequeued while a later one, from
\* another connection, waits in the queue.
C1_Witness ==
    /\ q_hist.dequeued_before # NoSeq
    /\ q_hist.dequeued > q_hist.dequeued_before
    /\ \E i \in 1..Len(pending) : pending[i].sequence > q_hist.dequeued

\* C2: every sequence number enqueue returns is larger than every one it
\* returned before (so no two are equal), also after an eviction and after
\* clear(); the counter is always ahead of them.
C2_SequenceUniqueIncreasing ==
    /\ q_hist.assigned # NoSeq => q_hist.assigned > q_hist.assigned_before
    /\ sequence_counter > q_hist.assigned
    /\ \A i \in 1..Len(pending) : pending[i].sequence <= q_hist.assigned

\* C2 witness: enqueue returned a number after an eviction and a clear().
C2_Witness ==
    /\ q_hist.evictions = 1
    /\ q_hist.clears = 1
    /\ q_hist.assigned > q_hist.assigned_before
    /\ q_hist.assigned_before >= max_size
    /\ pending # <<>>
    /\ pending[Len(pending)].sequence = q_hist.assigned

(***************************************************************************)
(* The circuit breaker's properties, under CBSpec.                         *)
(***************************************************************************)

\* C5: from CLOSED with a failure count of zero, failure_threshold
\* record_failure calls in a row open the breaker and fewer do not; in
\* CLOSED a record_failure adds one to the count and opens the breaker
\* exactly when the count reaches the threshold, and a record_success
\* lowers the count by one, never below zero, and leaves the breaker CLOSED.
C5_ClosedCountsToThreshold ==
    /\ cb_op.run > 0 => ((cb.state = "open") <=> (cb_op.run >= failure_threshold))
    /\ cb.state = "closed" =>
          cb.failure_count >= 0 /\ cb.failure_count < failure_threshold
    /\ (cb_op.name = "record_failure" /\ cb_op.pre.state = "closed") =>
          /\ cb.failure_count = cb_op.pre.failure_count + 1
          /\ cb.state = IF cb_op.pre.failure_count + 1 >= failure_threshold
                        THEN "open" ELSE "closed"
    /\ (cb_op.name = "record_success" /\ cb_op.pre.state = "closed") =>
          /\ cb.state = "closed"
          /\ cb.failure_count =
                IF cb_op.pre.failure_count = 0 THEN 0 ELSE cb_op.pre.failure_count - 1

\* C5 witness: the failure_threshold-th failure in a row has just opened
\* the breaker.
C5_Witness ==
    /\ cb_op.name = "record_failure"
    /\ cb_op.run = failure_threshold
    /\ cb_op.pre.state = "closed"
    /\ cb.state = "open"

\* C6: a can_execute that finds the breaker OPEN less than timeout_seconds
\* after the last failure is rejected with a retry_after >= 0 (the time that
\* is left) and leaves it OPEN; one that finds it OPEN with the timeout
\* elapsed moves it to HALF_OPEN and is admitted as probe number one; and
\* so is one that finds it HALF_OPEN with no probe admitted yet.
C6_OpenRejectsUntilTimeout ==
    /\ cb.state = "open" => cb.last_failure_time # NoTime
    /\ (cb_op.name = "can_execute" /\ cb_op.pre.state = "open") =>
          IF cb_op.at - cb_op.pre.last_failure_time < timeout_seconds
          THEN /\ ~cb_op.allowed
               /\ cb_op.reason = "circuit_open"
               /\ cb_op.retry_after >= 0
               /\ cb_op.retry_after =
                     timeout_seconds - (cb_op.at - cb_op.pre.last_failure_time)
               /\ cb = cb_op.pre
          ELSE /\ cb_op.allowed
               /\ cb.state = "half_open"
               /\ cb.half_open_calls = 1
    /\ (/\ cb_op.name = "can_execute"
        /\ cb_op.pre.state = "half_open"
        /\ cb_op.pre.half_open_calls = 0) =>
          cb_op.allowed /\ cb.state = "half_open" /\ cb.half_open_calls = 1

\* C6 witness: a can_execute found the breaker OPEN with the timeout
\* elapsed and was admitted in HALF_OPEN.
C6_Witness ==
    /\ cb_op.name = "can_execute"
    /\ cb_op.pre.state = "open"
    /\ cb_op.at - cb_op.pre.last_failure_time >= timeout_seconds
    /\ cb_op.allowed
    /\ cb.state = "half_open"

\* C7: in HALF_OPEN a record_failure reopens the breaker at once; a
\* record_success closes it exactly when it is the success_threshold-th
\* since HALF_OPEN was entered, and then the failure and success counts are
\* zero; before that the breaker stays HALF_OPEN.
C7_HalfOpenClosesOrReopens ==
    /\ cb.state = "half_open" =>
          cb.success_count = cb_op.probes_ok /\ cb_op.probes_ok < success_threshold
    /\ (cb_op.name = "record_failure" /\ cb_op.pre.state = "half_open") =>
          cb.state = "open"
    /\ (cb_op.name = "record_success" /\ cb_op.pre.state = "half_open") =>
          IF cb_op.probes_ok = success_threshold
          THEN cb.state = "closed" /\ cb.failure_count = 0 /\ cb.success_count = 0
          ELSE cb.state = "half_open" /\ cb_op.probes_ok < success_threshold

\* C7 witness: the success_threshold-th success has just closed the breaker.
C7_Witness ==
    /\ cb_op.name = "record_success"
    /\ cb_op.pre.state = "half_open"
    /\ cb_op.probes_ok = success_threshold
    /\ cb.state = "closed"

(***************************************************************************)
(* Properties of the server (Spec).                                        *)
(***************************************************************************)
\* the last handler call of the tick ended in a domain or validation
\* failure: an unknown type, a validator's error, a user-error exception of
\* the handler, or a type the registry cannot look up
DomainFailure ==
    /\ exec_hist.class # ""
    /\ \/ exec_hist.outcome \in {"invalid", "raises_user"}
       \/ exec_hist.type \in {"unknown", "unhashable"}

\* C3: a command whose outcome is a domain or validation failure is answered
\* with success = false without the service-error text and is recorded as a
\* breaker success: the failure count does not increase, a Closed breaker
\* stays Closed and no breaker is moved to Open.
C3_UserErrorsRecordSuccess ==
    DomainFailure =>
        /\ exec_hist.error # "service_error"
        /\ exec_hist.failures_after <= exec_hist.failures_before
        /\ exec_hist.state_before = "closed" => exec_hist.state_after = "closed"
        /\ exec_hist.state_before # "open" => exec_hist.state_after # "open"

C3_Witness ==
    /\ DomainFailure
    /\ exec_hist.outcome = "raises_user"
    /\ exec_hist.state_before = "closed"
    /\ exec_hist.state_after = "closed"
    /\ conn["c1"].n >= 2

\* C4: a command whose handler times out or raises an unexpected exception
\* is answered with the service-error text and recorded as a breaker
\* failure: the failure count grows by one or the breaker opens.
C4_ServiceErrorRecordsFailure ==
    (exec_hist.class # "" /\ exec_hist.outcome = "raises_service") =>
        /\ exec_hist.error = "service_error"
        /\ \/ exec_hist.failures_after = exec_hist.failures_before + 1
           \/ exec_hist.state_after = "open"

\* C8: no handler is called while the breaker is Open.
C8_NoHandlerWhileOpen ==
    tick.pc = "execute" => tick.state_at_handle # "open"

\* the breaker is HalfOpen with every probe used up, too few successes to
\* close, and no tick past its can_execute check: every can_execute is
\* refused, so no command is admitted or executed and nothing calls
\* record_success
StuckHalfOpen ==
    /\ srv = "running"
    /\ tick.pc = "idle"
    /\ cb.state = "half_open"
    /\ cb.half_open_calls >= half_open_max_calls
    /\ cb.success_count < success_threshold

\* nothing but a freeze found by the watchdog, or stop, ends StuckHalfOpen:
\* ticks, messages and the passing of time leave the breaker as it is
StuckIsPermanent ==
    [][(StuckHalfOpen /\ cb'.state # "open" /\ srv' = "running") => StuckHalfOpen']_vars

\* C9: the breaker can always recover: it is never HalfOpen with no way
\* left to record the successes that close it.
C9_BreakerCanRecover == ~StuckHalfOpen

\* the checks of _handle_client in the order rate limiter, breaker,
\* backpressure
IsPrefix(s, t) ==
    /\ Len(s) <= Len(t)
    /\ \A i \in 1..Len(s) : s[i] = t[i]

Rejected(c) ==
    /\ conn[c].pc = "reply"
    /\ conn[c].sending[1].data_type = "backpressure"

Queued(c, id) ==
    \/ \E i \in 1..Len(pending) : pending[i].client = c /\ pending[i].id = id
    \/ tick.item.client = c /\ tick.item.id = id
    \/ \E i \in 1..Len(responses[c]) : responses[c][i].id = id

\* C10: the checks evaluated for a message are rate limiter, breaker,
\* backpressure, in that order, up to the first that rejects; a message is
\* enqueued only after all three have passed; a rejected message is
\* answered by the check that stopped it, evaluates no later check and is
\* not in the queue; a reserved type evaluates no check.
C10_AdmissionOrder ==
    \A c \in Clients :
        /\ IsPrefix(conn[c].trace, <<"rate_limit", "circuit", "backpressure">>)
        /\ conn[c].pc = "wait" =>
               conn[c].trace = <<"rate_limit", "circuit", "backpressure">>
        /\ Rejected(c) =>
               /\ conn[c].trace # <<>>
               /\ conn[c].sending =
                      <<Rejection(conn[c].n, conn[c].trace[Len(conn[c].trace)],
                                  conn[c].sending[1].reason, conn[c].sending[1].level,
                                  conn[c].sending[1].retry_after)>>
               /\ ~conn[c].sending[1].success
               /\ ~Queued(c, conn[c].n)
        /\ (conn[c].pc = "reply" /\ ~Rejected(c)) =>
               /\ conn[c].trace = <<>>
               /\ ~Queued(c, conn[c].n)

C10_Witness ==
    \E c \in Clients :
        /\ Rejected(c)
        /\ conn[c].trace = <<"rate_limit", "circuit">>
        /\ conn[c].sending[1].error = "Service temporarily unavailable (circuit open)"


\* the step is _handle_client taking the next message of the connection c,
\* of a type in the set types
TakesMessage(c, types) ==
    /\ conn[c].pc = "recv"
    /\ conn'[c].n = conn[c].n + 1
    /\ conn'[c].type \in types

\* the message the connection c has just taken is answered inline with a
\* success, no token has left the rate limiter and nothing has entered the
\* command queue
AnsweredInline(c) ==
    /\ conn'[c].pc = "reply"
    /\ Len(conn'[c].sending) = 1
    /\ conn'[c].sending[1].success
    /\ conn'[c].sending[1].id = conn'[c].n
    /\ rl' = rl
    /\ pending' = pending
    /\ sequence_counter' = sequence_counter

\* C11 as stated: a message of the type ping, heartbeat or get_health is
\* answered inline by the connection thread whatever the limiter, the
\* breaker and the backpressure level say, takes no rate-limiter token and
\* does not enter the command queue.
C11_ReservedBypassGating ==
    [][\A c \in Clients :
          TakesMessage(c, {"ping", "heartbeat", "get_health"}) => AnsweredInline(c)]_vars

\* C11 amended: a message of the type heartbeat or get_health is answered
\* inline by the connection thread whatever the limiter, the breaker and the
\* backpressure level say, takes no rate-limiter token and does not enter
\* the command queue.
C11_HeartbeatAndHealthBypassGating ==
    [][\A c \in Clients :
          TakesMessage(c, {"heartbeat", "get_health"}) => AnsweredInline(c)]_vars

\* C11 witness: a health query is being answered while the client's bucket
\* is empty, the breaker is Open and the backpressure level is Critical.
C11_Witness ==
    \E c \in Clients :
        /\ conn[c].pc = "reply"
        /\ conn[c].type = "get_health"
        /\ conn[c].sending[1].success
        /\ rl.buckets[c].present
        /\ rl.buckets[c].tokens = 0
        /\ rl.buckets[c].last_refill = now
        /\ cb.state = "open"
        /\ bp_level = "critical"

\* the connection c is gone: its thread has finished
Gone(c) == conn[c].pc = "done"

\* C15: once a connection's thread has finished the rate limiter holds no
\* bucket for it, and none comes back: every bucket belongs to a connection
\* whose thread is running.
C15_NoBucketOutlivesConnection ==
    \A c \in Clients :
        rl.buckets[c].present => conn[c].pc \notin {"none", "done"}

\* C15 witness: the thread of a connection that had a command admitted, and
\* so had a bucket, has finished.
C15_Witness ==
    \E c \in Clients :
        /\ Gone(c)
        /\ conn[c].n >= 1
        /\ \/ \E i \in 1 .. Len(pending) : pending[i].client = c
           \/ responses[c] # <<>>
        /\ ~rl.buckets[c].present

\* C16: the response queue keeps no entry for a connection that is gone:
\* its pending responses are purged when it closes and responses produced
\* later for its commands are discarded.
C16_NoResponseOutlivesConnection ==
    \A c \in Clients : Gone(c) => responses[c] = <<>>

(***************************************************************************)
(* Properties of the rate limiter (RLSpec).                                *)
(***************************************************************************)
\* the balance of the global bucket after the refill of the last call
RefilledGlobal ==
    Min(rl_op.pre.bucket_size,
        rl_op.pre.tokens
          + (rl_op.at - rl_op.pre.last_refill) * rl_op.pre.tokens_per_second)

\* the balance of the bucket of the client c after the refill of the last
\* call by c: a full bucket if the client had none
RefilledClient(c) ==
    IF ~rl_op.pre.buckets[c].present THEN rl_op.pre.per_client_bucket
    ELSE Min(rl_op.pre.per_client_bucket,
             rl_op.pre.buckets[c].tokens
               + (rl_op.at - rl_op.pre.buckets[c].last_refill)
                   * (rl_op.pre.tokens_per_second \div 5))

\* the last call was acquire for no more tokens than either bucket holds
\* when full
AcquireWithinCapacity ==
    /\ rl_op.name = "acquire"
    /\ rl_op.n <= rl_op.pre.bucket_size
    /\ rl_op.n <= rl_op.pre.per_client_bucket

\* the last call repeats the rejected acquire before it, retry_after
\* (need / rate) or more later
RetryAfterWait ==
    /\ AcquireWithinCapacity
    /\ rl_op.prev.name = "acquire"
    /\ ~rl_op.prev.allowed
    /\ rl_op.prev.client = rl_op.client
    /\ rl_op.prev.n = rl_op.n
    /\ (rl_op.at - rl_op.prev.at) * rl_op.prev.rate >= rl_op.prev.need

\* C12: a rejected acquire(client, n), n within both capacities, reports a
\* retry_after above zero, and the same acquire made retry_after or more
\* later, with no other call in between, is allowed.
C12_RetryAfterSuffices ==
    /\ (AcquireWithinCapacity /\ ~rl_op.allowed) =>
           rl_op.need > 0 /\ rl_op.rate > 0
    /\ RetryAfterWait => rl_op.allowed

\* C13: acquire decides on the refilled balances, the global bucket first:
\* rejected with global_rate_limit whenever the global bucket holds fewer
\* than n tokens, rejected with client_rate_limit exactly when the global
\* bucket suffices and the client's bucket holds fewer than n, and allowed
\* otherwise.
C13_GlobalCheckedFirst ==
    rl_op.name = "acquire" =>
        IF RefilledGlobal < rl_op.n
        THEN ~rl_op.allowed /\ rl_op.reason = "global_rate_limit"
        ELSE IF RefilledClient(rl_op.client) < rl_op.n
        THEN ~rl_op.allowed /\ rl_op.reason = "client_rate_limit"
        ELSE rl_op.allowed /\ rl_op.reason = ""

\* C13 witness: both buckets are short and the answer names the global one.
C13_Witness ==
    /\ rl_op.name = "acquire"
    /\ RefilledGlobal < rl_op.n
    /\ RefilledClient(rl_op.client) < rl_op.n
    /\ rl_op.pre.buckets[rl_op.client].present
    /\ rl_op.reason = "global_rate_limit"

\* C14: an allowed acquire(client, n) takes exactly n tokens from the
\* refilled global bucket and n from the client's refilled bucket; a
\* rejected one leaves both at their refilled balances; neither touches the
\* bucket of another client.
C14_DebitsExactlyN ==
    rl_op.name = "acquire" =>
        LET c == rl_op.client
            debit == IF rl_op.allowed THEN rl_op.n ELSE 0
        IN /\ rl.tokens = RefilledGlobal - debit
           /\ rl.buckets[c].present
           /\ rl.buckets[c].tokens = RefilledClient(c) - debit
           /\ \A d \in Clients \ {c} : rl.buckets[d] = rl_op.pre.buckets[d]

\* C14 witness: an allowed acquire of more than one token after a refill,
\* while another client has a bucket.
C14_Witness ==
    /\ rl_op.name = "acquire"
    /\ rl_op.allowed
    /\ rl_op.n = 2
    /\ rl_op.at > rl_op.pre.last_refill
    /\ RefilledGlobal > rl_op.pre.tokens
    /\ \E d \in Clients \ {rl_op.client} :
           rl.buckets[d].present /\ rl.buckets[d].tokens < rl.per_client_bucket

(***************************************************************************)
(* Properties of the watchdog (WDSpec).                                    *)
(***************************************************************************)
\* on_freeze and on_recover calls alternate, on_freeze first, and
\* _is_frozen is set exactly between an on_freeze and the next on_recover
CallbacksAlternate ==
    /\ wd_op.recovers <= wd_op.freezes
    /\ wd_op.freezes <= wd_op.recovers + 1
    /\ wd.is_frozen <=> wd_op.freezes = wd_op.recovers + 1

\* C17 as stated: whenever more than freeze_threshold passes between two
\* heartbeats of a running watchdog, on_freeze is called exactly once in
\* between, however many polls there are, and the second heartbeat calls
\* on_recover exactly once; the calls alternate, on_freeze first, and
\* is_frozen is true exactly between an on_freeze and the next on_recover.
C17_EveryFreezeFiresOnce ==
    /\ CallbacksAlternate
    /\ wd_op.gap_freezes <= 1
    /\ (wd_op.last = "heartbeat" /\ wd_op.hb_watched
            /\ wd_op.hb_gap > freeze_threshold) =>
           wd_op.hb_freezes = 1 /\ wd_op.hb_recovers = 1

\* C17 amended: between two heartbeats on_freeze is called exactly once if
\* a poll finds the last heartbeat more than freeze_threshold ago, however
\* many polls do, and not at all if none does; the heartbeat that follows
\* calls on_recover exactly once in the first case and not in the second;
\* the calls alternate, on_freeze first, and is_frozen is true exactly
\* between an on_freeze and the next on_recover.
C17_DetectedFreezeFiresOnce ==
    /\ CallbacksAlternate
    /\ wd_op.gap_freezes = (IF wd_op.gap_polls > 0 THEN 1 ELSE 0)
    /\ wd_op.last = "heartbeat" =>
           /\ wd_op.hb_freezes = (IF wd_op.hb_polls > 0 THEN 1 ELSE 0)
           /\ wd_op.hb_recovers = wd_op.hb_freezes

\* C17 witness: the heartbeat that ends the second freeze, after two polls
\* had found the main thread frozen.
C17_Witness ==
    /\ wd_op.last = "heartbeat"
    /\ wd_op.hb_polls >= 2
    /\ wd_op.hb_freezes = 1
    /\ wd_op.hb_recovers = 1
    /\ wd_op.recovers = 2
    /\ ~wd.is_frozen

(***************************************************************************)
(* Properties of the backpressure controller (BPSpec).                     *)
(***************************************************************************)
\* C18: evaluate returns Critical whenever the circuit state is open and
\* whenever the queue depth reaches queue_critical, whatever the other
\* arguments are.
C18_OpenOrFullQueueIsCritical ==
    bp_op.name = "evaluate" =>
        /\ bp_op.circuit_state = "open" => bp_op.evaluated = "critical"
        /\ bp_op.queue_size >= queue_critical => bp_op.evaluated = "critical"
        /\ bp_level = bp_op.evaluated

\* C18 witness: an open circuit with an empty queue and no latency.
C18_Witness ==
    /\ bp_op.name = "evaluate"
    /\ bp_op.circuit_state = "open"
    /\ bp_op.queue_size = 0
    /\ bp_op.latencies = <<0>>
    /\ bp_level = "critical"

\* the highest level a threshold of which the queue depth or the average
\* latency reaches
HighestBreached(queue_size, lat) ==
    IF queue_size >= queue_critical \/ AvgLatencyAtLeast(lat, latency_critical)
    THEN "critical"
    ELSE IF queue_size >= queue_high \/ AvgLatencyAtLeast(lat, latency_high)
    THEN "high"
    ELSE IF queue_size >= queue_elevated \/ AvgLatencyAtLeast(lat, latency_elevated)
    THEN "elevated"
    ELSE "normal"

\* C19: with a circuit that is not open evaluate returns the highest level
\* a threshold of which the queue depth or the latency reaches.
C19_HighestBreachedLevel ==
    (bp_op.name = "evaluate" /\ bp_op.circuit_state # "open") =>
        bp_op.evaluated = HighestBreached(bp_op.queue_size, bp_op.latencies)

IsHealthy(port) == pm.ports[port].is_healthy

\* the primary if healthy, else the first healthy backup in priority order,
\* else the primary
PreferredPort ==
    IF IsHealthy(primary_port) THEN primary_port
    ELSE IF \E i \in 1 .. Len(backup_ports) : IsHealthy(backup_ports[i])
    THEN backup_ports[CHOOSE i \in 1 .. Len(backup_ports) :
                         /\ IsHealthy(backup_ports[i])
                         /\ \A j \in 1 .. (i - 1) : ~IsHealthy(backup_ports[j])]
    ELSE primary_port

C22_StopDrainsQueue ==
    [][srv' = "stopped" =>
          /\ \A c \in Clients : ~conn'[c].open
          /\ ~wd'.running
          /\ pending' = <<>>
          /\ (srv = "stopping" => pending = <<>>)]_vars

\* q[i] for some i
InQueue(e, q) == \E i \in 1 .. Len(q) : q[i] = e

\* C23: every queue entry is consumed exactly once by exactly one dispatch:
\* an entry that leaves the queue is the one the tick hands to the handler
\* in that step, and its sequence number is above every one dispatched
\* before, so that no entry is dispatched twice.
C23_ConsumedExactlyOnce ==
    [][\A i \in 1 .. Len(pending) :
          ~InQueue(pending[i], pending') =>
              /\ tick'.pc = "execute"
              /\ tick'.item = pending[i]
              /\ q_hist'.dequeued = pending[i].sequence
              /\ q_hist'.dequeued > q_hist.dequeued]_vars

\* C24: the queue never holds more than max_size entries; an enqueue on a
\* full queue removes the oldest entry, the one with the lowest sequence
\* number, and then appends the new one, and an enqueue removes no other
\* entry: apart from the evicted entry the old entries stay, in order, in
\* front of the new one.
C24_BoundedEvictsOldest ==
    /\ [](Len(pending) <= max_size)
    /\ [][sequence_counter' # sequence_counter =>
            LET kept == IF Len(pending) = max_size THEN Tail(pending) ELSE pending IN
            /\ pending' # <<>>
            /\ SubSeq(pending', 1, Len(pending') - 1) = kept
            /\ pending'[Len(pending')].sequence = sequence_counter
            /\ \A i \in 2 .. Len(pending) :
                  pending[1].sequence < pending[i].sequence]_vars

\* C24 witness: the queue is full again after an enqueue evicted its oldest
\* entry: the first sequence number is gone and the last one assigned is
\* at the end.
C24_Witness ==
    /\ q_hist.evictions = 1
    /\ Len(pending) = max_size
    /\ pending[1].sequence > 0
    /\ pending[max_size].sequence = q_hist.assigned
    /\ q_hist.dequeued = NoSeq
    /\ q_hist.clears = 0

\* C25: the responses a connection sends at the end of its wait for the
\* command it enqueued are responses to that command: they carry its id.
\* The late response to an earlier command of the connection is not sent
\* as the answer to a later one.
C25_WaitSendsMatchingResponse ==
    \A c \in Clients :
        (conn[c].pc = "send" /\ conn[c].type \in QueuedTypes) =>
            \A i \in 1 .. Len(conn[c].sending) :
                conn[c].sending[i].id = conn[c].n

\* C26: every response carries the id and the sequence of the command it
\* answers: the inline answers and the rejections a connection thread
\* builds carry the id and the sequence attribute of the command it has
\* just parsed, and a response the tick queues carries the id and the
\* sequence of the entry it handed to the handler, for that entry's client.
C26_ResponseEchoesIdAndSequence ==
    /\ [](\A c \in Clients :
            conn[c].pc = "reply" =>
                \A i \in 1 .. Len(conn[c].sending) :
                    /\ conn[c].sending[i].id = conn[c].n
                    /\ conn[c].sending[i].sequence = conn[c].seq)
    /\ [][\A c \in Clients :
            Len(responses'[c]) > Len(responses[c]) =>
                /\ tick.item.client = c
                /\ responses'[c][Len(responses'[c])].id = tick.item.id
                /\ responses'[c][Len(responses'[c])].sequence = tick.item.sequence]_vars

\* C27: every rejection by an admission check, the rate limiter, the
\* breaker (Open, or HalfOpen with its probe calls used up) or the
\* backpressure controller, is a response with success = false whose data
\* has the type backpressure, a reason and a retry hint.
C27_RejectionHasReasonAndRetryHint ==
    \A c \in Clients :
        (conn[c].pc = "reply" /\ conn[c].trace # <<>>) =>
            \A i \in 1 .. Len(conn[c].sending) :
                /\ ~conn[c].sending[i].success
                /\ conn[c].sending[i].data_type = "backpressure"
                /\ conn[c].sending[i].reason # ""
                /\ conn[c].sending[i].retry_after

\* C28: a message that cannot be interpreted as a command, a text that is
\* not JSON or a JSON text that is no object, is answered with an error
\* response with the id "unknown" (0), enters no queue, takes no token and
\* does not end the read loop: the thread goes on to send the answer.
C28_UninterpretableIsAnswered ==
    [][\A c \in Clients :
          TakesMessage(c, {"malformed", "not_object"}) =>
              /\ conn'[c].pc = "send"
              /\ Len(conn'[c].sending) = 1
              /\ ~conn'[c].sending[1].success
              /\ conn'[c].sending[1].id = 0
              /\ pending' = pending
              /\ sequence_counter' = sequence_counter
              /\ rl'.tokens = rl.tokens
              /\ rl'.buckets = rl.buckets]_vars

(***************************************************************************)
(* Claims about the breaker's transitions (CBSpec) and about what opens    *)
(* the server's breaker (Spec).                                            *)
(***************************************************************************)
\* the timeout of the Open breaker has passed
TimeoutElapsed ==
    /\ cb.last_failure_time # NoTime
    /\ now - cb.last_failure_time >= timeout_seconds

\* C29 as stated: the breaker moves only from Closed to Open, from Open to
\* HalfOpen, and from HalfOpen to Closed or Open; it enters HalfOpen only
\* from Open once the timeout has passed and Closed only from HalfOpen,
\* whatever public operation is called.
C29_NoTransitionSkipsAState ==
    [][cb'.state # cb.state =>
          /\ <<cb.state, cb'.state>> \in
                 {<<"closed", "open">>, <<"open", "half_open">>,
                  <<"half_open", "closed">>, <<"half_open", "open">>}
          /\ cb'.state = "half_open" => TimeoutElapsed]_vars

\* C29 amended: can_execute, the state property, record_success,
\* record_failure and force_open move the breaker only from Closed to Open
\* (record_failure, force_open), from Open to HalfOpen (can_execute or the
\* state property, once the timeout has passed), from HalfOpen to Closed
\* (record_success) and from HalfOpen to Open (record_failure, force_open);
\* force_close, the manual override, moves it to Closed from any state.
C29_OnlyForceCloseSkipsAState ==
    [][cb'.state # cb.state =>
          \/ /\ cb_op'.name = "force_close"
             /\ cb'.state = "closed"
          \/ /\ cb_op'.name \in {"record_failure", "force_open"}
             /\ <<cb.state, cb'.state>> \in
                    {<<"closed", "open">>, <<"half_open", "open">>}
          \/ /\ cb_op'.name \in {"can_execute", "state"}
             /\ <<cb.state, cb'.state>> = <<"open", "half_open">>
             /\ TimeoutElapsed
          \/ /\ cb_op'.name = "record_success"
             /\ <<cb.state, cb'.state>> = <<"half_open", "closed">>]_vars

\* C29 witness: a read of the state property has just moved the breaker
\* from Open to HalfOpen, exactly timeout_seconds after the last failure,
\* with more failures recorded than it took to open it.
C29_Witness ==
    /\ cb_op.name = "state"
    /\ cb_op.pre.state = "open"
    /\ cb.state = "half_open"
    /\ cb_op.pre.failure_count > failure_threshold
    /\ now - cb.last_failure_time = timeout_seconds

\* the step is the watchdog thread detecting a freeze; the step is the
\* heartbeat of a tick that ends one
FreezeDetectedStep == ~wd.is_frozen /\ wd'.is_frozen
RecoveryStep == wd.is_frozen /\ ~wd'.is_frozen

\* the step is a tick recording the failure of the command it executed
FailureRecordedStep ==
    /\ tick.pc = "execute"
    /\ exec_hist'.class = "service_error"
    /\ cb'.failure_count = cb.failure_count + 1

\* C30: the server's breaker enters Open only in a step that records a
\* failure (in HalfOpen, or reaching the threshold in Closed) or in which
\* the watchdog detects a freeze; every detection of a freeze leaves the
\* breaker Open; and the heartbeat that ends a freeze does not close it.
C30_OpenedByFailureOrFreezeOnly ==
    [][/\ (cb.state # "open" /\ cb'.state = "open") =>
              \/ /\ FailureRecordedStep
                 /\ \/ cb.state = "half_open"
                    \/ cb'.failure_count >= failure_threshold
              \/ FreezeDetectedStep
       /\ FreezeDetectedStep =>
              /\ cb'.state = "open"
              /\ cb'.last_failure_time = now
       /\ RecoveryStep =>
              /\ cb'.state # "closed" \/ cb.state = "closed"
              /\ cb.state = "open" => cb'.state \in {"open", "half_open"}
              /\ cb'.state = "half_open" /\ cb.state = "open" => TimeoutElapsed]_vars

\* C30 witness: the watchdog forced the breaker Open during a freeze, the
\* tick's heartbeat has ended the freeze, with a latency above the freeze
\* threshold, and the breaker is still Open: it refused the tick.
C30_Witness ==
    /\ srv = "running"
    /\ wd.running
    /\ ~wd.is_frozen
    /\ wd.latencies # <<>>
    /\ wd.latencies[Len(wd.latencies)] > freeze_threshold
    /\ wd.last_heartbeat = now
    /\ cb.state = "open"
    /\ tick.pc = "idle"

(***************************************************************************)
(* Health monitor                                                          *)
(***************************************************************************)
\* the number of component issues present in the statistics of the last check
IssueCount ==
    (IF hm_op.total > 0 /\ 2 * hm_op.rejected > hm_op.total THEN 1 ELSE 0)
    + (IF hm_op.state # "closed" THEN 1 ELSE 0)
    + (IF \E p \in ManagedPorts : ~hm_op.ports[p].is_healthy THEN 1 ELSE 0)
    + (IF hm_op.is_frozen THEN 1 ELSE 0)
    + (IF hm_op.level \in {"high", "critical"} THEN 1 ELSE 0)

\* the level and the healthy flag follow the component states as documented,
\* allclear being the level reported when no issue is present
LevelFollowsComponentStates(allclear) ==
    hm_op.name = "check" =>
        LET critical == hm_op.state = "open" \/ hm_op.is_frozen IN
        /\ (hm_op.answer = "critical") <=> critical
        /\ critical => ~hm_op.healthy
        /\ ~critical /\ IssueCount > 2
               => hm_op.answer = "unhealthy" /\ ~hm_op.healthy
        /\ ~critical /\ IssueCount \in {1, 2}
               => hm_op.answer = "degraded" /\ hm_op.healthy
        /\ IssueCount = 0 => hm_op.answer \in allclear /\ hm_op.healthy

\* C31 as stated: check reports critical and not healthy exactly when the
\* breaker is open or the watchdog frozen, otherwise unhealthy and not healthy
\* with more than two issues, degraded and healthy with one or two, the
\* all-clear level and healthy with none, and the level is always one of the
\* documented normal, degraded, unhealthy, critical.
C31_LevelIsDocumented ==
    /\ LevelFollowsComponentStates({"normal", "degraded", "unhealthy", "critical"})
    /\ hm_op.name = "check"
           => hm_op.answer \in {"normal", "degraded", "unhealthy", "critical"}

\* C31 amended: the same rules, the all-clear level being "healthy" and the
\* level always one of healthy, degraded, unhealthy, critical.
C31_LevelFollowsComponents ==
    /\ LevelFollowsComponentStates({"healthy"})
    /\ hm_op.name = "check"
           => hm_op.answer \in {"healthy", "degraded", "unhealthy", "critical"}

\* C31 witness: a check that found three issues, none of them an open breaker or a frozen
\* main thread, and reported unhealthy
C31_Witness ==
    hm_op.name = "check" /\ hm_op.answer = "unhealthy" /\ IssueCount = 3

(***************************************************************************)
(* The tick and the breaker                                                *)
(***************************************************************************)
\* a step of the main thread entering process_commands: the server runs, no
\* tick is in progress, no connection thread moves, the clock stands, and the
\* step is not the watchdog's detection (which leaves the main thread frozen)
TickEntered ==
    /\ srv = "running" /\ tick.pc = "idle"
    /\ UNCHANGED <<srv, now, conn>>
    /\ ~wd'.is_frozen
    /\ <<wd, bp_level, cb, tick>>' # <<wd, bp_level, cb, tick>>

\* can_execute, called now, would refuse
CircuitRefuses == ~CanExecute(CheckStateTransition(cb, now), now).allowed

\* C32: a tick that finds the circuit refusing execution dequeues nothing,
\* hands nothing to the handler, enqueues no response and returns at once
\* (zero commands processed), leaving the command queue as it was, while the
\* watchdog has received its heartbeat and the backpressure level has been
\* recomputed from the queue size, the latencies and the breaker's state.
C32_RefusedTickIsNoOp ==
    [][TickEntered /\ CircuitRefuses =>
          /\ tick'.pc = "idle"
          /\ UNCHANGED <<pending, sequence_counter, q_hist, responses, exec_hist>>
          /\ wd'.last_heartbeat = now /\ ~wd'.is_frozen
          /\ bp_level' = Evaluate(Len(pending), wd'.latencies,
                                  CheckStateTransition(cb, now).state)]_vars

\* C32 witness: a tick has just been refused by the Open breaker with a
\* command waiting in the queue: the heartbeat is of this instant, the level
\* is critical and the command is still queued
C32_Witness ==
    /\ srv = "running" /\ tick.pc = "idle"
    /\ cb.state = "open" /\ CircuitRefuses
    /\ now > 0 /\ wd.last_heartbeat = now /\ ~wd.is_frozen
    /\ bp_level = "critical"
    /\ pending # <<>>

\* C33: the HalfOpen probe counter never exceeds half_open_max_calls; a
\* can_execute that finds the breaker HalfOpen with the limit reached is
\* refused with reason half_open_limit_reached and counts nothing; and each
\* entry into HalfOpen starts the counter from zero, so after the entering call
\* it counts that call's probe (can_execute) or nothing (a read of the state),
\* whatever the previous episode left.
C33_ProbesBounded ==
    /\ [](cb.half_open_calls <= half_open_max_calls)
    /\ [](cb_op.name = "can_execute" /\ cb_op.pre.state = "half_open"
          /\ cb_op.pre.half_open_calls >= half_open_max_calls
              => /\ ~cb_op.allowed
                 /\ cb_op.reason = "half_open_limit_reached"
                 /\ cb.half_open_calls = cb_op.pre.half_open_calls)
    /\ [][cb.state # "half_open" /\ cb'.state = "half_open"
              => cb'.half_open_calls =
                     IF cb_op'.name = "can_execute" /\ cb_op'.allowed THEN 1 ELSE 0]_vars

\* C33 witness: a second HalfOpen episode has been entered by a probe after
\* an episode that used up the limit: the breaker is HalfOpen with one probe
\* counted, entered by a can_execute that found it Open with the old count
C33_Witness ==
    /\ cb.state = "half_open" /\ cb.half_open_calls = 1
    /\ cb_op.name = "can_execute" /\ cb_op.allowed
    /\ cb_op.pre.state = "open"
    /\ cb_op.pre.half_open_calls = half_open_max_calls

\* the step is _handle_client taking a command of the connection c and
\* rejecting it at admission
RejectsCommand(c) ==
    /\ TakesMessage(c, QueuedTypes)
    /\ conn'[c].pc = "reply"
    /\ conn'[c].sending[1].data_type = "backpressure"

\* C34: a command rejected at admission, by any of the three checks, and a
\* tick that finds the queue empty leave the breaker's state and all its
\* counters, the HalfOpen probe count included, as they were (the change
\* from Open to HalfOpen that the elapsed timeout alone brings is not counted
\* as an effect of the command or the tick).
C34_OnlyHandledCommandsTouchBreaker ==
    [][(\/ \E c \in Clients : RejectsCommand(c)
        \/ TickEntered /\ pending = <<>>)
           => cb' = CheckStateTransition(cb, now)]_vars

(***************************************************************************)
(* Response queue                                                          *)
(***************************************************************************)
\* no element occurs twice in the sequence s
NoRepeat(s) == \A i, j \in 1 .. Len(s) : s[i] = s[j] => i = j

\* C35: whatever the interleaving of the enqueuing thread and the connection
\* threads, what a connection has been handed followed by what still waits
\* for it is exactly what was enqueued for it, in enqueue order (so
\* get_responses removes what it returns, all of it and nothing else); no
\* response is handed out twice; and no connection is handed a response
\* enqueued for another connection.
C35_DeliveredOnceInOrder ==
    \A c \in Clients :
        /\ rq_hist.delivered[c] \o Ids(responses[c]) = rq_hist.enqueued[c]
        /\ NoRepeat(rq_hist.delivered[c])
        /\ \A d \in Clients \ {c} :
               \A i \in 1 .. Len(rq_hist.delivered[c]) :
                   \A j \in 1 .. Len(rq_hist.enqueued[d]) :
                       rq_hist.delivered[c][i] # rq_hist.enqueued[d][j]

\* C35 witness: one connection has been handed two responses, another has
\* been handed one, and a further response waits for the first
C35_Witness ==
    /\ Len(rq_hist.delivered["c1"]) = 2
    /\ Len(rq_hist.delivered["c2"]) = 1
    /\ Len(responses["c1"]) = 1

(***************************************************************************)
(* Locks                                                                   *)
(***************************************************************************)
\* the thread t waits for a lock it cannot take
Blocked(t) == Wants(t) # "" /\ ~CanTake(t, Wants(t))

\* C36: in no reachable interleaving of the main thread, the watchdog thread
\* and the connection threads is there a set of threads each waiting for a
\* lock held by a thread of the set (a lock cycle, or a thread waiting for a
\* non-reentrant lock it holds itself); every lock is held by at most one
\* thread; and a thread that takes a lock while holding another is the
\* watchdog thread taking the breaker's lock while holding the watchdog's.
C36_NoDeadlock ==
    /\ \A T \in SUBSET Threads :
           T # {} => \E t \in T : ~(Blocked(t) /\ lk.owner[Wants(t)] \in T)
    /\ \A t \in Threads :
           Wants(t) # "" /\ Holds(t) # {}
               => /\ Holds(t) = {"watchdog"}
                  /\ Wants(t) = "circuit_breaker"
    /\ \A t \in Threads : Cardinality(Holds(t)) <= 2

\* C36 witness: the watchdog thread is inside force_open, holding its own
\* lock and the breaker's, while the main thread waits for the watchdog's
\* lock (its heartbeat) and a connection thread waits for the breaker's
\* lock (admission)
C36_Witness ==
    /\ Holds("watchdog") = {"watchdog", "circuit_breaker"}
    /\ Blocked("main") /\ Wants("main") = "watchdog"
    /\ Blocked("c1") /\ Wants("c1") = "circuit_breaker"

(***************************************************************************)
(* The waiting dequeue                                                     *)
(***************************************************************************)
\* what dequeue has returned to the thread t is sound: a call that found an
\* entry returned the oldest one at once, a call that found the queue empty
\* returned an entry that was enqueued after the call or the empty result,
\* and no entry has been returned twice
DequeueSound(t) ==
    LET d == deq.th[t] IN
    /\ d.found # NoSeq
           => d.pc = "idle" /\ d.result = "entry" /\ d.sequence = d.found
              /\ ~d.waited
    /\ d.found = NoSeq /\ d.result = "entry" => d.sequence # NoSeq
    /\ NoRepeat(deq.taken)

\* C37 as stated: a dequeue on a queue that is not empty returns the oldest
\* entry at once; on an empty queue it returns an entry enqueued while it
\* waited, or the empty result once its timeout has expired; and it never
\* returns an entry another dequeue has taken.
C37_EmptyOnlyAfterTimeout ==
    \A t \in DeqThreads :
        /\ DequeueSound(t)
        /\ deq.th[t].result = "empty" => ~deq.th[t].early

\* C37 amended: every dequeue returns (a waiting thread ends its wait and
\* returns, no later than its timeout lets it); a dequeue on a queue that is
\* not empty returns the oldest entry at once; on an empty queue it returns
\* an entry enqueued while it waited or the empty result, and the empty
\* result comes before the timeout has expired only to a thread that an
\* enqueue had woken and that found the queue empty again; no entry is
\* returned twice.
C37_BoundedWait ==
    /\ [](\A t \in DeqThreads :
              /\ DequeueSound(t)
              /\ deq.th[t].result = "empty" /\ deq.th[t].early
                     => deq.th[t].notified)
    /\ \A t \in DeqThreads : (deq.th[t].pc # "idle") ~> (deq.th[t].pc = "idle")

\* C37 witness: a thread that waited on the empty queue has returned the
\* empty result before its timeout expired, the entry whose enqueue woke it
\* having gone to the other thread, which had waited too
C37_Witness ==
    /\ deq.th["t1"].pc = "idle" /\ deq.th["t1"].result = "empty"
    /\ deq.th["t1"].notified /\ deq.th["t1"].early
    /\ deq.th["t2"].pc = "idle" /\ deq.th["t2"].result = "entry"
    /\ deq.th["t2"].found = NoSeq

(***************************************************************************)
(* The drain loop                                                          *)
(***************************************************************************)
\* C38: a tick executes at most the commands that were in the queue when its
\* drain began, whatever the connection threads enqueue meanwhile: the drain
\* loop never dequeues more entries than the queue held at that moment.
C38_DrainBoundedByQueueAtBegin == tick.budget >= 0

(***************************************************************************)
(* Rate limiter                                                            *)
(***************************************************************************)
\* C39: a command that the breaker or the backpressure check rejects takes
\* no token: after the rejection the global bucket and the client's bucket
\* hold what the refill up to this instant alone gives them.
C39_RejectedCommandKeepsTokens ==
    [][\A c \in Clients :
           RejectsCommand(c) /\ Len(conn'[c].trace) >= 2
               => LET r == RefillClient(RefillGlobal(rl, now), c, now) IN
                  /\ rl'.tokens = r.tokens
                  /\ rl'.buckets[c].tokens = r.buckets[c].tokens]_vars

\* C40: whatever acquire calls with token counts of zero or more are made,
\* at whatever times of a clock that does not run backwards, the global
\* balance stays between 0 and bucket_size, every client's balance between
\* 0 and per_client_bucket, and the rejected requests never outnumber the
\* requests.
C40_BalancesWithinBuckets ==
    /\ rl.tokens >= 0 /\ rl.tokens <= rl.bucket_size
    /\ \A c \in Clients :
           rl.buckets[c].present
               => /\ rl.buckets[c].tokens >= 0
                  /\ rl.buckets[c].tokens <= rl.per_client_bucket
    /\ rl_op.stats.rejected >= 0
    /\ rl_op.stats.rejected <= rl_op.stats.total

\* C40 witness: after accepted and rejected requests the global bucket is
\* empty, a client's bucket is empty, and time has passed since the refill
C40_Witness ==
    /\ rl.tokens = 0
    /\ \E c \in Clients : rl.buckets[c].present /\ rl.buckets[c].tokens = 0
    /\ rl_op.stats.rejected >= 1
    /\ rl_op.stats.rejected < rl_op.stats.total
    /\ now > 0

=============================================================================
